---------------------------- MODULE Spec2Model ----------------------------
(***************************************************************************)
(* A model of the micromouse firmware components:                          *)
(*   - the packed wall store, its ASCII import/export and the BFS          *)
(*     explorer of mousecore2/src/solver.rs;                               *)
(*   - the fail-safe and the control law branch of the trajectory tracker  *)
(*     of src/tracker.rs;                                                  *)
(*   - the agent of src/agent.rs, the search operator, the operator and    *)
(*     the return setup operator with their tick and run contexts;         *)
(*   - the slalom trajectory and the angle normalization;                  *)
(*   - the encoder of sensors2, the node ids and wall positions of         *)
(*     src/maze and the run agent of src/agent.rs.                         *)
(* Every operator below is translated from the Rust source it names in     *)
(* its comment.                                                            *)
(***************************************************************************)
EXTENDS Integers, Sequences, FiniteSets, TLC

VARIABLES
    walls,      \* Walls.0: the packed byte array (only non-zero bytes are kept)
    fresh,      \* TRUE while `walls` is exactly the value Walls::new() returned
    lastUpdate, \* the arguments of the latest Walls::update call, or NoCall
    nUpdates,   \* how many Walls::update calls the callers have made
    text,       \* the latest string produced by Display::fmt, or NoCall
    reparsed,   \* TRUE while `walls` is exactly the store parsed from `text`
    found,      \* the outcome of the latest Searcher::search call, or NoCall
    tracker,    \* Tracker: the voltages on its motors, xi, and whether it panicked
    lastTrack,  \* the arguments and the outcome of the latest track call, or NoCall
    agent,      \* Agent: trajectories (and whether its Mutex is held), last_target
    setCommand, \* where the foreground is in SearchAgent::set_command
    agentLog,   \* what set_command generated and what track_next handed to the tracker
    searchOp,   \* SearchOperator: current and is_updated
    opRun,      \* where the foreground is in SearchOperator::run
    opLog,      \* the stores of tick, the swaps of run and the solver invocations so far
    operator,   \* Operator: mode, the switch it reads, and where its run loop is
    returnSetup, \* ReturnSetupOperator: is_completed and its agent
    rsLog,      \* the outcomes of the tick and run calls on the ReturnSetupOperator
    slalom,     \* a SlalomTrajectory and the outcome of the latest next call on it
    angle,      \* the argument and the result of the latest normalize_angle call
    encoder,    \* MA702GQ: before_count and the outcome of the latest angle call
    nodeId,     \* the arguments and the outcome of the latest NodeId::new(..).as_node()
    wallPos,    \* the argument and the outcome of the latest WallPosition::from_position
    runAgent    \* RunAgent: run_trajectory, its borrow flag, and the two contexts

vars == <<walls, fresh, lastUpdate, nUpdates, text, reparsed, found, tracker, lastTrack,
          agent, setCommand, agentLog, searchOp, opRun, opLog, operator,
          returnSetup, rsLog, slalom, angle, encoder, nodeId, wallPos, runAgent>>

NoCall == [called |-> FALSE]

\* The variables of the solver and the tracker.
coreVars == <<walls, fresh, lastUpdate, nUpdates, text, reparsed, found, tracker, lastTrack>>

\* The variables of the agent.
agentVars == <<agent, setCommand, agentLog>>

\* Option::None of Cell<Option<Target>>
NoTarget == <<>>

\* Agent::new: an empty queue behind an unlocked Mutex, no last target
NewAgent == [trajectories |-> <<>>, locked |-> FALSE, last_target |-> NoTarget]

AgentIdle ==
    /\ agent = NewAgent
    /\ setCommand = [pc |-> "idle"]
    /\ agentLog = [generated |-> <<>>, emitted |-> <<>>, tick |-> NoCall, enqueue |-> NoCall]

\* The variables of the search operator.
searchOpVars == <<searchOp, opRun, opLog>>

\* SearchOperator::new(start, ..): current is the start node (node 0),
\* is_updated is AtomicBool::new(true)
NewSearchOperator == [current |-> 0, is_updated |-> TRUE]

SearchOperatorIdle ==
    /\ searchOp = NewSearchOperator
    /\ opRun = [pc |-> "idle"]
    /\ opLog = [stores |-> 0, rises |-> 0, swaps |-> 0, invocations |-> 0,
                solved |-> 0 - 1, preempted |-> FALSE]

\* The variables of the operator.
operatorVars == <<operator>>

\* Operator::new: mode is AtomicMode::new(Mode::Idle); the switch is
\* released and run has not started
NewOperator ==
    [mode |-> "Idle", switch |-> FALSE, pc |-> "loop", chosen |-> "Idle", plans |-> 0]

OperatorIdle == operator = NewOperator

\* The variables of the return setup operator.
returnSetupVars == <<returnSetup, rsLog>>

\* No ReturnSetupOperator has been constructed.
ReturnSetupIdle == returnSetup = NoCall /\ rsLog = NoCall

\* The variables of the trajectory and the angle computations.
calcVars == <<slalom, angle, encoder, nodeId, wallPos, runAgent>>

\* The variables of the encoder, the maze geometry and the run agent.
lateVars == <<encoder, nodeId, wallPos, runAgent>>

\* No encoder or run agent has been constructed and no node or wall computed.
LateIdle == encoder = NoCall /\ nodeId = NoCall /\ wallPos = NoCall /\ runAgent = NoCall

\* No trajectory has been generated and no angle normalized.
CalcIdle == slalom = NoCall /\ angle = NoCall /\ LateIdle

\* The variables of the components a run of the solver or the tracker
\* leaves alone, and their state.
restVars == <<agentVars, searchOpVars, operatorVars, returnSetupVars, calcVars>>
RestIdle ==
    AgentIdle /\ SearchOperatorIdle /\ OperatorIdle /\ ReturnSetupIdle /\ CalcIdle

\* The variables a run of the agent leaves alone.
nonAgentVars == <<coreVars, searchOpVars, operatorVars, returnSetupVars, calcVars>>

\* The variables a run of the search operator leaves alone.
nonSearchOpVars == <<coreVars, agentVars, operatorVars, returnSetupVars, calcVars>>

\* The variables a run of the operator leaves alone.
nonOperatorVars == <<returnSetupVars, calcVars>>

----------------------------------------------------------------------------
(* Parameters of the build.                                                *)

\* The const generic W of Coordinate<W>, Walls<W>, Searcher<W>: the grid
\* width used by every test of solver.rs.
W == 4

\* crate::WIDTH, the constant that sizes every fixed buffer.
WIDTH == 32

\* QUE_MAX, solver.rs line 242.
QUE_MAX == WIDTH * WIDTH * 2

\* WALL_ARRAY_LEN, solver.rs line 378.
WALL_ARRAY_LEN == (WIDTH * WIDTH) \div 2

\* The largest value of an i8, the type new_relative computes in.
I8_MAX == 127

----------------------------------------------------------------------------
(* Machine arithmetic on naturals.                                         *)

Pow2(n) == 2 ^ n

\* a << n on usize (no value of the model reaches the width of usize)
Shl(a, n) == a * Pow2(n)

\* a >> n
Shr(a, n) == a \div Pow2(n)

\* Bit i of a.
Bit(a, i) == (a \div Pow2(i)) % 2

\* a & b for a, b < 16, tabulated.
And4 ==
    [a \in 0..15 |-> [b \in 0..15 |->
        Bit(a, 0) * Bit(b, 0) + 2 * Bit(a, 1) * Bit(b, 1)
           + 4 * Bit(a, 2) * Bit(b, 2) + 8 * Bit(a, 3) * Bit(b, 3)]]

\* a & b, four bits at a time
RECURSIVE BitAnd(_, _)
BitAnd(a, b) ==
    IF a = 0 \/ b = 0 THEN 0
    ELSE And4[a % 16][b % 16] + 16 * BitAnd(a \div 16, b \div 16)

\* a | b
BitOr(a, b) == a + b - BitAnd(a, b)

\* !a on a u8
BitNot8(a) == 255 - (a % 256)

----------------------------------------------------------------------------
(* Coordinate<W>                                                           *)

Coord(x, y, is_top) == [x |-> x, y |-> y, is_top |-> is_top]

None == [none |-> TRUE]

\* Coordinate::new
Coordinate_new(x, y, is_top) ==
    IF x >= W \/ y >= W THEN None ELSE Coord(x, y, is_top)

\* Every coordinate Coordinate::new accepts.
ValidCoords == {Coord(x, y, t) : x \in 0..(W - 1), y \in 0..(W - 1), t \in BOOLEAN}

InGrid(c) == c.x < W /\ c.y < W

\* Coordinate::as_index
as_index(c) ==
    BitOr(BitOr(Shl(c.y, 2 * W + 1), Shl(c.x, W + 1)),
          IF c.is_top THEN 1 ELSE 0)

\* Coordinate::new_relative: the sum is computed in i8 with checked_add and
\* only negative results are rejected.
new_relative(c, dx, dy, is_top) ==
    LET x == c.x + dx
        y == c.y + dy
    IN  IF x > I8_MAX \/ y > I8_MAX THEN None
        ELSE IF x < 0 \/ y < 0 THEN None
        ELSE Coord(x, y, is_top)

----------------------------------------------------------------------------
(* WallState and Walls<W>                                                  *)

Unchecked == "Unchecked"
CheckedAbsent == "Checked{exists:false}"
CheckedPresent == "Checked{exists:true}"
WallStates == {Unchecked, CheckedAbsent, CheckedPresent}

\* What an operation evaluates to when the Rust code panics.
Panic == "panic"

\* What a store-valued operation evaluates to when the Rust code panics
\* (an array of its own shape, told apart by the index -1).
Aborted == [j \in {-1} |-> 0]

\* (self.0)[i] of the byte array; bytes that are zero are not stored.
Byte(a, i) == IF i \in DOMAIN a THEN a[i] ELSE 0

\* (self.0)[i] = v
SetByte(a, i, v) ==
    IF v = 0 THEN [j \in (DOMAIN a) \ {i} |-> a[j]]
    ELSE [j \in (DOMAIN a) \cup {i} |-> IF j = i THEN v ELSE a[j]]

\* The two bits Walls::update writes for a state.
StateBits(state) ==
    CASE state = Unchecked -> 0
      [] state = CheckedAbsent -> 1
      [] state = CheckedPresent -> 3

\* Walls::update with a whole byte cleared instead of one two-bit slot.
Walls_update_ClearsByte(a, coord, state) ==
    LET index == as_index(coord)
        shift == (index % 4) * 2
    IN  IF a = Aborted \/ index \div 4 >= WALL_ARRAY_LEN THEN Aborted
        ELSE SetByte(a, index \div 4, Shl(StateBits(state), shift))

\* A Walls::update that sets the new bits without clearing the old ones.
Walls_update_NoClear(a, coord, state) ==
    LET index == as_index(coord)
        shift == (index % 4) * 2
    IN  IF a = Aborted \/ index \div 4 >= WALL_ARRAY_LEN THEN Aborted
        ELSE SetByte(a, index \div 4,
                     BitOr(Byte(a, index \div 4), Shl(StateBits(state), shift)))

\* Walls::update; an index outside the array panics.
Walls_update(a, coord, state) ==
    LET bit == StateBits(state)
        index == as_index(coord)
        shift == (index % 4) * 2
    IN  IF a = Aborted \/ index \div 4 >= WALL_ARRAY_LEN THEN Aborted
        ELSE LET cleared == BitAnd(Byte(a, index \div 4), BitNot8(Shl(3, shift)))
             IN  SetByte(a, index \div 4, BitOr(cleared, Shl(bit, shift)))

\* Maze::wall_state for Walls
wall_state(a, wall) ==
    LET index == as_index(wall)
    IN  IF index \div 4 >= WALL_ARRAY_LEN THEN Panic
        ELSE LET bit == BitAnd(Shr(Byte(a, index \div 4), (index % 4) * 2), 3)
             IN  CASE bit = 0 -> Unchecked
                   [] bit = 1 -> CheckedAbsent
                   [] bit = 3 -> CheckedPresent
                   [] OTHER -> Panic

\* The body of the loop of Walls::new for one i.
RECURSIVE NewLoop(_, _, _)
NewLoop(a, i, n) ==
    IF i >= n THEN a
    ELSE NewLoop(
            Walls_update(Walls_update(a, Coord(W - 1, i, FALSE), CheckedPresent),
                         Coord(i, W - 1, TRUE), CheckedPresent),
            i + 1, n)

\* [0; WALL_ARRAY_LEN]
ZeroArray == [j \in {} |-> 0]

\* Walls::new with the loop stopping one short.
Walls_new_Short == NewLoop(ZeroArray, 0, W - 1)

\* Walls::new
Walls_new == NewLoop(ZeroArray, 0, W)

----------------------------------------------------------------------------
(* Display for Walls and FromStr for Walls.  A string is a sequence of     *)
(* one-character strings.                                                  *)

NL == "\n"

\* The closure `exists` of Walls::fmt.
fmt_exists(a, x, y, is_top) ==
    LET c == Coordinate_new(x, y, is_top)
    IN  IF c = None THEN Panic ELSE wall_state(a, c) = CheckedPresent

\* for x in 0..W { write "+---" or "+   " }
RECURSIVE fmt_tops(_, _, _)
fmt_tops(a, y, x) ==
    IF x >= W THEN <<>>
    ELSE (IF fmt_exists(a, x, y, TRUE)
             THEN <<"+", "-", "-", "-">>
             ELSE <<"+", " ", " ", " ">>) \o fmt_tops(a, y, x + 1)

\* for x in 0..W { write "   |" or "    " }
RECURSIVE fmt_rights(_, _, _)
fmt_rights(a, y, x) ==
    IF x >= W THEN <<>>
    ELSE (IF fmt_exists(a, x, y, FALSE)
             THEN <<" ", " ", " ", "|">>
             ELSE <<" ", " ", " ", " ">>) \o fmt_rights(a, y, x + 1)

\* for _ in 0..W { write "+---" }
RECURSIVE fmt_bottom(_)
fmt_bottom(x) ==
    IF x >= W THEN <<>> ELSE <<"+", "-", "-", "-">> \o fmt_bottom(x + 1)

\* for y in (0..W).rev() { ... }: rows y, y-1, ..., 0
RECURSIVE fmt_rows(_, _)
fmt_rows(a, y) ==
    IF y < 0 THEN <<>>
    ELSE fmt_tops(a, y, 0) \o <<"+", NL>>
         \o <<"|">> \o fmt_rights(a, y, 0) \o <<NL>>
         \o fmt_rows(a, y - 1)

\* Display::fmt (to_string)
Walls_fmt(a) == fmt_rows(a, W - 1) \o fmt_bottom(0) \o <<"+", NL>>

\* str::lines: the pieces between line feeds; a final line feed ends the
\* last line and starts no empty one.
lines(s) ==
    LET feeds == {i \in 1..Len(s) : s[i] = NL}
        nth(k) == CHOOSE i \in feeds : Cardinality({j \in feeds : j < i}) = k - 1
        count == Cardinality(feeds)
                 + (IF Len(s) > 0 /\ s[Len(s)] # NL THEN 1 ELSE 0)
    IN  [k \in 1..count |->
            SubSeq(s,
                   IF k = 1 THEN 1 ELSE nth(k - 1) + 1,
                   IF k <= Cardinality(feeds) THEN nth(k) - 1 ELSE Len(s))]

\* from_str reading a right wall only from a "-" (the character of a top wall).
from_str_char_WrongBar(a, y8, x8, c) ==
    IF a = Aborted THEN Aborted
    ELSE IF y8 % 2 = 0
    THEN IF x8 % 4 # 1 THEN a
         ELSE Walls_update(a, Coord(x8 \div 4, W - (y8 \div 2) - 1, TRUE),
                           IF c = "-" THEN CheckedPresent ELSE CheckedAbsent)
    ELSE IF x8 % 4 # 0 THEN a
         ELSE Walls_update(a, Coord((x8 \div 4) - 1, W - (y8 \div 2) - 1, FALSE),
                           IF c = "-" THEN CheckedPresent ELSE CheckedAbsent)

\* One character of one line in Walls::from_str: y is the line number and
\* x the character's position, both from 0 and cast to u8.
from_str_char(a, y8, x8, c) ==
    IF a = Aborted THEN Aborted
    ELSE IF y8 % 2 = 0
    THEN IF x8 % 4 # 1 THEN a
         ELSE Walls_update(a, Coord(x8 \div 4, W - (y8 \div 2) - 1, TRUE),
                           IF c = "-" THEN CheckedPresent ELSE CheckedAbsent)
    ELSE IF x8 % 4 # 0 THEN a
         ELSE Walls_update(a, Coord((x8 \div 4) - 1, W - (y8 \div 2) - 1, FALSE),
                           IF c = "|" THEN CheckedPresent ELSE CheckedAbsent)

\* line.chars().enumerate().skip(1).for_each(...): positions 1, 2, ...
RECURSIVE from_str_line(_, _, _, _)
from_str_line(a, y, line, x) ==
    IF x >= Len(line) THEN a
    ELSE LET b == from_str_char(a, y % 256, x % 256, line[x + 1])
         IN  IF b = Aborted THEN Aborted ELSE from_str_line(b, y, line, x + 1)

\* s.lines().enumerate().take(2 * W).for_each(...)
RECURSIVE from_str_lines(_, _, _)
from_str_lines(a, ls, y) ==
    IF y >= Len(ls) \/ y >= 2 * W THEN a
    ELSE LET b == from_str_line(a, y, ls[y + 1], 1)
         IN  IF b = Aborted THEN Aborted ELSE from_str_lines(b, ls, y + 1)

\* FromStr::from_str
Walls_from_str(s) == from_str_lines(Walls_new, lines(s), 0)

----------------------------------------------------------------------------
(* Searcher<W>: the explorer.  Every operation returns a record whose      *)
(* field `panic` tells that the Rust code panicked on the way, and whose   *)
(* field `created` collects the coordinates new_relative returned.         *)

\* prev[coord] / is_visisted[coord]: arrays of QUE_MAX entries indexed by
\* as_index; only the entries that were set are kept.
Slot(coord) == as_index(coord)
SlotInside(coord) == as_index(coord) < QUE_MAX
IsSet(arr, coord) == Slot(coord) \in DOMAIN arr
SetSlot(arr, coord, v) ==
    [j \in (DOMAIN arr) \cup {Slot(coord)} |-> IF j = Slot(coord) THEN v ELSE arr[j]]

NoSlots == [j \in {} |-> 0]

\* The filter bfs_tree hands to extended_neighbors:
\*   !matches!(maze.wall_state(coord), Checked{exists:true}) && prev[*coord].is_none()
\* TRUE, FALSE, or Panic when an index is outside its array.
bfs_filter(a, prev, coord) ==
    LET st == wall_state(a, coord)
    IN  IF st = Panic THEN Panic
        ELSE IF st = CheckedPresent THEN "false"
        ELSE IF ~SlotInside(coord) THEN Panic
        ELSE IF IsSet(prev, coord) THEN "false" ELSE "true"

\* The only element of a singleton set.  A step of a loop is written
\*     Only({ rest(x) : x \in {step} })
\* so that `step` is evaluated once, before `rest` uses it.
Only(S) == CHOOSE r \in S : TRUE

EmptyAcc == [panic |-> FALSE, list |-> <<>>, created |-> {}, ok |-> FALSE]

\* The closure add_with_check of extended_neighbors, on the neighbours
\* gathered so far; `ok` is what the closure returns.
ext_add(acc, self, a, prev, dx, dy, is_top) ==
    IF acc.panic THEN acc
    ELSE Only({
        IF coord = None THEN [acc EXCEPT !.ok = FALSE]
        ELSE Only({
            IF f = Panic
            THEN [acc EXCEPT !.panic = TRUE, !.created = @ \cup {coord}, !.ok = FALSE]
            ELSE IF f = "true"
            THEN IF Len(acc.list) >= WIDTH + 3
                 THEN [acc EXCEPT !.panic = TRUE, !.created = @ \cup {coord},
                                  !.ok = FALSE]
                 ELSE [acc EXCEPT !.list = Append(@, coord),
                                  !.created = @ \cup {coord}, !.ok = TRUE]
            ELSE [acc EXCEPT !.created = @ \cup {coord}, !.ok = FALSE]
            : f \in {bfs_filter(a, prev, coord)} })
        : coord \in {new_relative(self, dx, dy, is_top)} })

\* for d in 1.. { if !add_with_check(d * sx, d * sy, is_top) { break; } }
RECURSIVE ext_slide(_, _, _, _, _, _, _)
ext_slide(acc, self, a, prev, sx, sy, d) ==
    Only({ IF next.panic \/ ~next.ok THEN next
           ELSE ext_slide(next, self, a, prev, sx, sy, d + 1)
           : next \in {ext_add(acc, self, a, prev, d * sx, d * sy, self.is_top)} })

\* The four add_with_check calls that precede the loops.
RECURSIVE ext_adjacent(_, _, _, _, _, _)
ext_adjacent(acc, self, a, prev, offsets, i) ==
    IF i > Len(offsets) THEN acc
    ELSE Only({ ext_adjacent(next, self, a, prev, offsets, i + 1)
                : next \in {ext_add(acc, self, a, prev,
                                    offsets[i][1], offsets[i][2], ~self.is_top)} })

\* Coordinate::extended_neighbors with the filter of bfs_tree
extended_neighbors(self, a, prev) ==
    LET offsets == IF self.is_top
                   THEN << <<0, 0>>, <<-1, 0>>, <<0, 1>>, <<-1, 1>> >>
                   ELSE << <<0, 0>>, <<0, -1>>, <<1, 0>>, <<1, -1>> >>
        sx == IF self.is_top THEN 0 ELSE 1
        sy == IF self.is_top THEN 1 ELSE 0
    IN  Only({ Only({ ext_slide(n5, self, a, prev, -sx, -sy, 1)
                      : n5 \in {ext_slide(n4, self, a, prev, sx, sy, 1)} })
               : n4 \in {ext_adjacent(EmptyAcc, self, a, prev, offsets, 1)} })

\* for next in ... { prev[next] = Some(node); que.push_back(next).unwrap(); }
RECURSIVE bfs_record(_, _, _, _)
bfs_record(st, node, list, i) ==
    IF i > Len(list) THEN st
    ELSE IF Len(st.que) >= QUE_MAX THEN [st EXCEPT !.panic = TRUE]
    ELSE Only({ bfs_record(next, node, list, i + 1)
                : next \in {[st EXCEPT !.prev = SetSlot(@, list[i], node),
                                       !.que = Append(@, list[i])]} })

\* One turn of `while let Some(node) = que.pop_front() { ... }` of bfs_tree;
\* a finished loop (panic, empty queue, goal at the head) is left as it is.
bfs_turn(st, a, goal) ==
    IF st.panic \/ st.que = <<>> THEN st
    ELSE IF Head(st.que) = goal THEN st
    ELSE Only({
        IF ns.panic
        THEN [st EXCEPT !.panic = TRUE, !.que = Tail(@), !.created = @ \cup ns.created]
        ELSE bfs_record([st EXCEPT !.que = Tail(@), !.created = @ \cup ns.created],
                        Head(st.que), ns.list, 1)
        : ns \in {extended_neighbors(Head(st.que), a, st.prev)} })

\* n turns of the loop of bfs_tree, halving n to keep the evaluation shallow.
RECURSIVE bfs_loop(_, _, _, _)
bfs_loop(st0, a, goal, n) ==
    Only({ IF st.panic \/ st.que = <<>> \/ Head(st.que) = goal THEN st
           ELSE IF n = 1 THEN bfs_turn(st, a, goal)
           ELSE bfs_loop(bfs_loop(st, a, goal, n \div 2), a, goal, n - (n \div 2))
           : st \in {st0} })

\* Searcher::bfs_tree.  A node is pushed only while its prev slot is None
\* and the push fills the slot, so the loop takes at most QUE_MAX turns.
bfs_tree(start, goal, a) ==
    IF ~SlotInside(start)
    THEN [panic |-> TRUE, que |-> <<>>, prev |-> NoSlots, created |-> {}]
    ELSE bfs_loop([panic |-> FALSE, que |-> <<start>>,
                   prev |-> SetSlot(NoSlots, start, start), created |-> {}],
                  a, goal, QUE_MAX)

\* restore_path of the tests: the path from start to goal read off prev.
RECURSIVE restore_loop(_, _, _, _)
restore_loop(prev, start, cur, path) ==
    IF ~IsSet(prev, cur) THEN path
    ELSE IF cur = start THEN <<cur>> \o path
    ELSE Only({ restore_loop(prev, start, prev[Slot(cur)], longer)
                : longer \in {<<cur>> \o path} })

restore_path(start, goal, prev) == restore_loop(prev, start, goal, <<>>)

\* The coordinates lo, lo+1, ..., hi-1 of one column or row, each built by
\* Coordinate::new(..).unwrap() and pushed on a Vec of WIDTH - 2 entries.
ic_range(lo, hi, fixed, is_top) ==
    LET n == IF hi > lo THEN hi - lo ELSE 0
        at(k) == IF is_top THEN Coordinate_new(fixed, lo + k - 1, TRUE)
                 ELSE Coordinate_new(lo + k - 1, fixed, FALSE)
    IN  IF n > WIDTH - 2 \/ \E k \in 1..n : at(k) = None
        THEN [panic |-> TRUE, list |-> <<>>]
        ELSE [panic |-> FALSE, list |-> [k \in 1..n |-> at(k)]]

\* An intermediate_coords that forgets the walls a slide passes.
intermediate_coords_SelfOnly(self, other) ==
    IF self = other THEN [panic |-> TRUE, list |-> <<>>]
    ELSE [panic |-> FALSE, list |-> <<self>>]

\* Coordinate::intermediate_coords
intermediate_coords(self, other) ==
    LET dx == other.x - self.x
        dy == other.y - self.y
    IN  IF self.is_top
        THEN IF other.is_top
             THEN IF self.x # other.x \/ self.y = other.y
                  THEN [panic |-> TRUE, list |-> <<>>]
                  ELSE IF self.y > other.y
                  THEN ic_range(other.y + 1, self.y + 1, self.x, TRUE)
                  ELSE ic_range(self.y, other.y, self.x, TRUE)
             ELSE IF <<dx, dy>> \in {<<0, 0>>, <<-1, 0>>, <<-1, 1>>, <<0, 1>>}
                  THEN [panic |-> FALSE, list |-> <<self>>]
                  ELSE [panic |-> TRUE, list |-> <<>>]
        ELSE IF other.is_top
             THEN IF <<dx, dy>> \in {<<0, 0>>, <<0, -1>>, <<1, 0>>, <<1, -1>>}
                  THEN [panic |-> FALSE, list |-> <<self>>]
                  ELSE [panic |-> TRUE, list |-> <<>>]
             ELSE IF self.x = other.x \/ self.y # other.y
                  THEN [panic |-> TRUE, list |-> <<>>]
                  ELSE IF self.x > other.x
                  THEN ic_range(other.x + 1, self.x + 1, self.y, FALSE)
                  ELSE ic_range(self.x, other.x, self.y, FALSE)

\* .filter(|node| maze.wall_state(node) == WallState::Unchecked)
uw_filter(a, list) ==
    LET unchecked(node) == wall_state(a, node) = Unchecked
    IN  SelectSeq(list, unchecked)

\* while let Some(next) = prev[cur] { ... } of unchecked_walls
RECURSIVE uw_loop(_, _, _, _, _)
uw_loop(a, prev, start, cur, acc) ==
    IF ~SlotInside(cur) THEN [acc EXCEPT !.panic = TRUE]
    ELSE IF ~IsSet(prev, cur) THEN acc
    ELSE Only({
        IF ic.panic \/ \E k \in 1..Len(ic.list) : wall_state(a, ic.list[k]) = Panic
        THEN [acc EXCEPT !.panic = TRUE]
        ELSE Only({
            IF Len(grown.list) > QUE_MAX THEN [acc EXCEPT !.panic = TRUE]
            ELSE IF prev[Slot(cur)] = start THEN grown
            ELSE uw_loop(a, prev, start, prev[Slot(cur)], grown)
            : grown \in {[acc EXCEPT !.list = @ \o uw_filter(a, ic.list)]} })
        : ic \in {intermediate_coords(cur, prev[Slot(cur)])} })

\* Searcher::unchecked_walls
unchecked_walls(start, goal, a, prev) ==
    uw_loop(a, prev, start, goal, [panic |-> FALSE, list |-> <<>>])

\* The closure add_with_check of Coordinate::neighbors.
nb_add(acc, self, a, dx, dy, is_top) ==
    IF acc.panic THEN acc
    ELSE Only({
        IF coord = None THEN acc
        ELSE Only({
            IF st = Panic THEN [acc EXCEPT !.panic = TRUE, !.created = @ \cup {coord}]
            ELSE IF st # CheckedPresent
            THEN [acc EXCEPT !.list = Append(@, coord), !.created = @ \cup {coord}]
            ELSE [acc EXCEPT !.created = @ \cup {coord}]
            : st \in {wall_state(a, coord)} })
        : coord \in {new_relative(self, dx, dy, is_top)} })

\* The six add_with_check calls of Coordinate::neighbors, in their order.
RECURSIVE nb_all(_, _, _, _, _)
nb_all(acc, self, a, offsets, i) ==
    IF i > Len(offsets) THEN acc
    ELSE Only({ nb_all(next, self, a, offsets, i + 1)
                : next \in {nb_add(acc, self, a,
                                   offsets[i][1], offsets[i][2], offsets[i][3])} })

\* Coordinate::neighbors
neighbors(self, a) ==
    nb_all(EmptyAcc, self, a,
           IF self.is_top
           THEN << <<0, 0, FALSE>>, <<0, -1, TRUE>>, <<-1, 0, FALSE>>,
                   <<-1, 1, FALSE>>, <<0, 1, FALSE>>, <<0, 1, TRUE>> >>
           ELSE << <<0, 0, TRUE>>, <<-1, 0, FALSE>>, <<0, -1, TRUE>>,
                   <<1, -1, TRUE>>, <<1, 0, FALSE>>, <<1, 0, TRUE>> >>,
           1)

\* for &wall in unchecked_walls { que.push_back(wall).unwrap(); is_visisted[wall] = true; }
RECURSIVE cand_seed(_, _, _)
cand_seed(st, ws, i) ==
    IF i > Len(ws) THEN st
    ELSE IF Len(st.que) >= QUE_MAX \/ ~SlotInside(ws[i]) THEN [st EXCEPT !.panic = TRUE]
    ELSE Only({ cand_seed(next, ws, i + 1)
                : next \in {[st EXCEPT !.que = Append(@, ws[i]),
                                       !.vis = SetSlot(@, ws[i], TRUE)]} })

\* A loop body of candidates that collects `next` where the code has `node`.
cand_step_PushesNext(st, node, next, current) ==
    Only({
        IF hit.panic THEN hit
        ELSE IF ~SlotInside(next) THEN [hit EXCEPT !.panic = TRUE]
        ELSE IF IsSet(hit.vis, next) THEN hit
        ELSE IF Len(hit.que) >= QUE_MAX THEN [hit EXCEPT !.panic = TRUE]
        ELSE [hit EXCEPT !.vis = SetSlot(@, next, TRUE), !.que = Append(@, next)]
        : hit \in {IF next = current
                   THEN IF Len(st.cands) >= 6 THEN [st EXCEPT !.panic = TRUE]
                        ELSE [st EXCEPT !.cands = Append(@, next)]
                   ELSE st} })

\* One `next` of the loop over node.neighbors(maze) in candidates.
cand_step(st, node, next, current) ==
    Only({
        IF hit.panic THEN hit
        ELSE IF ~SlotInside(next) THEN [hit EXCEPT !.panic = TRUE]
        ELSE IF IsSet(hit.vis, next) THEN hit
        ELSE IF Len(hit.que) >= QUE_MAX THEN [hit EXCEPT !.panic = TRUE]
        ELSE [hit EXCEPT !.vis = SetSlot(@, next, TRUE), !.que = Append(@, next)]
        : hit \in {IF next = current
                   THEN IF Len(st.cands) >= 6 THEN [st EXCEPT !.panic = TRUE]
                        ELSE [st EXCEPT !.cands = Append(@, node)]
                   ELSE st} })

\* for next in node.neighbors(maze) { ... } of candidates
RECURSIVE cand_visit(_, _, _, _, _)
cand_visit(st, node, list, i, current) ==
    IF st.panic \/ i > Len(list) THEN st
    ELSE Only({ cand_visit(next, node, list, i + 1, current)
                : next \in {cand_step(st, node, list[i], current)} })

\* One turn of `while let Some(node) = que.pop_front() { ... }` of candidates.
cand_turn(st, a, current) ==
    IF st.panic \/ st.que = <<>> THEN st
    ELSE Only({
        IF ns.panic
        THEN [st EXCEPT !.panic = TRUE, !.que = Tail(@), !.created = @ \cup ns.created]
        ELSE cand_visit([st EXCEPT !.que = Tail(@), !.created = @ \cup ns.created],
                        Head(st.que), ns.list, 1, current)
        : ns \in {neighbors(Head(st.que), a)} })

\* n turns of the loop of candidates, halving n to keep the evaluation shallow.
RECURSIVE cand_loop(_, _, _, _)
cand_loop(st0, a, current, n) ==
    Only({ IF st.panic \/ st.que = <<>> THEN st
           ELSE IF n = 1 THEN cand_turn(st, a, current)
           ELSE cand_loop(cand_loop(st, a, current, n \div 2), a, current, n - (n \div 2))
           : st \in {st0} })

\* Searcher::candidates.  A wall is pushed only while is_visisted is false
\* for it and the push sets it, so the loop takes at most QUE_MAX turns.
candidates(current, a, ws) ==
    cand_loop(cand_seed([panic |-> FALSE, que |-> <<>>, vis |-> NoSlots,
                         cands |-> <<>>, created |-> {}], ws, 1),
              a, current, QUE_MAX)

Unreachable == "Err(Unreachable)"
OkNone == "Ok(None)"
OkSome == "Ok(Some)"

\* What search leaves behind when it panics after the first BFS.
Panicked(start, goal, current, created) ==
    [called |-> TRUE, start |-> start, goal |-> goal, current |-> current,
     result |-> Panic, path |-> <<>>, unchecked |-> <<>>, candidates |-> <<>>,
     created |-> created]

\* The part of Searcher::search after bfs_tree.
search_from(tree, start, goal, current, a) ==
    IF tree.panic THEN Panicked(start, goal, current, tree.created)
    ELSE IF ~IsSet(tree.prev, goal)
    THEN [Panicked(start, goal, current, tree.created) EXCEPT !.result = Unreachable]
    ELSE Only({
        IF ws.panic THEN Panicked(start, goal, current, tree.created)
        ELSE Only({
            IF ws.list = <<>>
            THEN [Panicked(start, goal, current, tree.created)
                    EXCEPT !.result = OkNone, !.path = path]
            ELSE Only({
                [Panicked(start, goal, current, tree.created \cup cs.created)
                   EXCEPT !.result = IF cs.panic THEN Panic
                                     ELSE IF cs.cands = <<>> THEN Unreachable
                                     ELSE OkSome,
                          !.path = path,
                          !.unchecked = ws.list,
                          !.candidates = IF cs.panic THEN <<>> ELSE cs.cands]
                : cs \in {candidates(current, a, ws.list)} })
            : path \in {restore_path(start, goal, tree.prev)} })
        : ws \in {unchecked_walls(start, goal, a, tree.prev)} })

\* Searcher::search, with what it computed on the way.
search(start, goal, current, a) ==
    Only({ search_from(tree, start, goal, current, a)
           : tree \in {bfs_tree(start, goal, a)} })

----------------------------------------------------------------------------
(* Tracker (src/src/tracker.rs).  Lengths are in centimetres, accelerations *)
(* in cm/s^2 and xi in units of 10^-5 m/s, so that with the period of 1 ms  *)
(* and the unit gains of build_tracker every quantity is an integer.  The   *)
(* heading is a number of quarter turns.                                    *)

\* DEFAULT_FAIL_SAFE_DISTANCE, 0.02 m
fail_safe_distance == 2

\* valid_control_lower_bound(0.001 m/s) of build_tracker
xi_threshold == 100

\* TrackerBuilder::build with initial_velocity(0.0); no voltage applied yet
NewTracker == [left_motor |-> 0, right_motor |-> 0, xi |-> 0, panicked |-> FALSE]

\* libm::sincosf at a multiple of a quarter turn
sincosf(q) ==
    [sin |-> <<0, 1, 0, -1>>[(q % 4) + 1], cos |-> <<1, 0, -1, 0>>[(q % 4) + 1]]

\* Tracker::stop
stop(t) == [t EXCEPT !.left_motor = 0, !.right_motor = 0]

\* The squared distance fail_safe takes the root of.
distance2(state, target) ==
    (state.x - target.x) * (state.x - target.x)
       + (state.y - target.y) * (state.y - target.y)

\* A fail_safe that panics without stopping the motors.
fail_safe_KeepsDriving(t, state, target) ==
    IF distance2(state, target) >= fail_safe_distance * fail_safe_distance
    THEN [t EXCEPT !.panicked = TRUE]
    ELSE t

\* Tracker::fail_safe: distance >= fail_safe_distance, compared by squares
fail_safe(t, state, target) ==
    IF distance2(state, target) >= fail_safe_distance * fail_safe_distance
    THEN [stop(t) EXCEPT !.panicked = TRUE]
    ELSE t

\* Tracker::track_move.  vol_v and vol_w are what the translation and the
\* rotation controller return; the velocities of state and target are 0.
track_move(t, state, target, vol_v, vol_w) ==
    Only({
        IF checked.panicked
        THEN [tracker |-> checked, computed |-> FALSE, branch |-> "none",
              left |-> 0, right |-> 0]
        ELSE LET th == sincosf(state.theta)
                 ux == target.ax + (target.x - state.x)
                 uy == target.ay + (target.y - state.y)
                 dxi == ux * th.cos + uy * th.sin
             IN  [tracker |-> [checked EXCEPT !.xi = @ + dxi],
                  computed |-> TRUE,
                  branch |-> IF checked.xi > xi_threshold THEN "high" ELSE "low",
                  left |-> vol_v - vol_w,
                  right |-> vol_v + vol_w]
        : checked \in {fail_safe(t, state, target)} })

\* Tracker::track; a panic in track_move leaves the call before the motors
\* are given the computed voltages.
track(t, state, target, vol_v, vol_w) ==
    Only({
        IF m.tracker.panicked THEN m
        ELSE [m EXCEPT !.tracker.left_motor = m.left, !.tracker.right_motor = m.right]
        : m \in {track_move(t, state, target, vol_v, vol_w)} })

----------------------------------------------------------------------------
(* The wall store driven by its callers: update, to_string, parse.         *)

\* How many update calls a run of the store makes.
MaxUpdates == 2

\* The values the variables of the other components keep in this part.
SearchIdle == found = NoCall
TrackerIdle == tracker = NewTracker /\ lastTrack = NoCall

NewStore ==
    /\ walls = Walls_new
    /\ fresh = TRUE
    /\ lastUpdate = NoCall
    /\ nUpdates = 0
    /\ text = NoCall
    /\ reparsed = FALSE

\* walls.update(&coord, &state) by a caller holding a valid coordinate
Update(coord, state) ==
    /\ nUpdates < MaxUpdates
    /\ walls' = Walls_update(walls, coord, state)
    /\ fresh' = FALSE
    /\ lastUpdate' = [called |-> TRUE, coord |-> coord, state |-> state,
                      prior |-> wall_state(walls, coord)]
    /\ nUpdates' = nUpdates + 1
    /\ text' = NoCall
    /\ reparsed' = FALSE
    /\ UNCHANGED <<found, tracker, lastTrack, restVars>>

\* walls = Walls::new() (also Default::default()): the store is built anew
New ==
    /\ ~fresh
    /\ walls' = Walls_new
    /\ fresh' = TRUE
    /\ lastUpdate' = NoCall
    /\ text' = NoCall
    /\ reparsed' = FALSE
    /\ UNCHANGED <<nUpdates, found, tracker, lastTrack, restVars>>

InitWalls == NewStore /\ SearchIdle /\ TrackerIdle /\ RestIdle

NextWalls ==
    \/ \E coord \in ValidCoords, state \in WallStates : Update(coord, state)
    \/ New

SpecWalls == InitWalls /\ [][NextWalls]_vars

----------------------------------------------------------------------------
(* The round trip through the ASCII format.                                *)

\* How many update calls precede a to_string in a run of the round trip.
MaxTextUpdates == 2

\* The walls those calls update: two that share a byte, an interior top
\* wall, an interior right wall and one wall of each perimeter side.
TextCoords ==
    {Coord(0, 0, FALSE), Coord(0, 0, TRUE), Coord(1, 2, TRUE),
     Coord(2, 1, FALSE), Coord(W - 1, 0, FALSE), Coord(0, W - 1, TRUE)}

TextUpdate(coord, state) ==
    /\ nUpdates < MaxTextUpdates
    /\ walls' = Walls_update(walls, coord, state)
    /\ fresh' = FALSE
    /\ lastUpdate' = [called |-> TRUE, coord |-> coord, state |-> state,
                      prior |-> wall_state(walls, coord)]
    /\ nUpdates' = nUpdates + 1
    /\ text' = NoCall
    /\ reparsed' = FALSE
    /\ UNCHANGED <<found, tracker, lastTrack, restVars>>

\* let s = walls.to_string()
Format ==
    /\ text = NoCall
    /\ text' = [called |-> TRUE, s |-> Walls_fmt(walls)]
    /\ reparsed' = FALSE
    /\ UNCHANGED <<walls, fresh, lastUpdate, nUpdates, found, tracker, lastTrack, restVars>>

\* walls = s.parse::<Walls<W>>().unwrap()
Parse ==
    /\ text # NoCall
    /\ ~reparsed
    /\ walls' = Walls_from_str(text.s)
    /\ reparsed' = TRUE
    /\ fresh' = FALSE
    /\ UNCHANGED <<lastUpdate, nUpdates, text, found, tracker, lastTrack, restVars>>

NextText ==
    \/ \E coord \in TextCoords, state \in WallStates : TextUpdate(coord, state)
    \/ Format
    \/ Parse

SpecText == InitWalls /\ [][NextText]_vars

----------------------------------------------------------------------------
(* The explorer driven by its caller: the wall store is updated from       *)
(* sensor observations and Searcher::new(start, goal).search(current, ..)  *)
(* is run on it.                                                           *)

\* The walls test_simple_display sets Checked{exists: true} on Walls::new();
\* the test asserts that the result prints as mazes/maze4_1.dat.
SimpleDisplayWalls ==
    <<Coord(0, 0, FALSE), Coord(0, 1, FALSE), Coord(0, 2, FALSE),
      Coord(1, 2, TRUE), Coord(2, 2, TRUE), Coord(2, 2, FALSE),
      Coord(1, 1, FALSE), Coord(2, 0, FALSE), Coord(2, 0, TRUE)>>

\* for wall in list { walls.update(&wall, &state) }
RECURSIVE update_all(_, _, _, _)
update_all(a, list, state, i) ==
    IF i > Len(list) THEN a
    ELSE LET b == Walls_update(a, list[i], state)
         IN  IF b = Aborted THEN Aborted ELSE update_all(b, list, state, i + 1)

\* include_str!("../mazes/maze4_1.dat").parse::<Walls<4>>().unwrap()
Maze4_1 ==
    Walls_from_str(Walls_fmt(update_all(Walls_new, SimpleDisplayWalls, CheckedPresent, 1)))

\* The walls test_search resets to Unchecked, and the store it searches.
TestSearchUnchecked ==
    <<Coord(0, 1, TRUE), Coord(1, 0, FALSE), Coord(0, 2, TRUE),
      Coord(1, 3, FALSE), Coord(2, 3, FALSE), Coord(2, 1, TRUE)>>

TestSearchMaze == update_all(Maze4_1, TestSearchUnchecked, Unchecked, 1)

\* The stores a run of the explorer starts from.
SearchStores == {Walls_new, Maze4_1, TestSearchMaze}

\* How many update calls a run of the explorer makes on its store.
MaxSearchUpdates == 1

\* The walls those calls update: the start of the tests, two nodes of the
\* shortest path of maze4_1, a wall that path slides past and one
\* perimeter wall.
SearchCoords ==
    {Coord(0, 0, TRUE), Coord(0, 2, TRUE), Coord(2, 1, FALSE),
     Coord(0, 1, TRUE), Coord(W - 1, 0, FALSE)}

\* The arguments of Searcher::new and search: the start, goal and current
\* coordinate of the tests and a few more.
Starts == {Coord(0, 0, TRUE), Coord(0, 0, FALSE)}
Goals == {Coord(1, 0, TRUE), Coord(2, 2, TRUE), Coord(0, 0, TRUE)}
Currents == {Coord(W - 1, 0, TRUE), Coord(2, 1, FALSE)}

InitSearch ==
    /\ walls \in SearchStores
    /\ fresh = (walls = Walls_new)
    /\ lastUpdate = NoCall
    /\ nUpdates = 0
    /\ text = NoCall
    /\ reparsed = FALSE
    /\ found = NoCall
    /\ TrackerIdle
    /\ RestIdle

\* walls.update(&coord, &state) after an observation; the plan is dropped.
SearchUpdate(coord, state) ==
    /\ nUpdates < MaxSearchUpdates
    /\ walls' = Walls_update(walls, coord, state)
    /\ fresh' = FALSE
    /\ lastUpdate' = [called |-> TRUE, coord |-> coord, state |-> state,
                      prior |-> wall_state(walls, coord)]
    /\ nUpdates' = nUpdates + 1
    /\ found' = NoCall
    /\ UNCHANGED <<text, reparsed, tracker, lastTrack, restVars>>

\* Searcher::new(start, goal).search(&current, &walls)
Search(start, goal, current) ==
    /\ found = NoCall
    /\ found' = search(start, goal, current, walls)
    /\ UNCHANGED <<walls, fresh, lastUpdate, nUpdates, text, reparsed, tracker, lastTrack, restVars>>

NextSearch ==
    \/ \E coord \in SearchCoords, state \in WallStates : SearchUpdate(coord, state)
    \/ \E start \in Starts, goal \in Goals, current \in Currents :
          Search(start, goal, current)

SpecSearch == InitSearch /\ [][NextSearch]_vars

----------------------------------------------------------------------------
(* The tracker driven by the control tick: track is called with the        *)
(* estimated state and the next target, stop when the agent is halted.     *)
(* A panic ends the program: nothing runs on the tracker after it.         *)

\* The largest position coordinate of a target, in centimetres.
MaxPos == 3

\* The largest |xi| a run lets the integrator reach.
MaxXi == 104

\* The states and targets of the track calls of a run.
TrackStates == [x : {0}, y : {0}, theta : {0, 2}]
TrackTargets == [x : 0..MaxPos, y : {0, MaxPos}, ax : {-100, 100}, ay : {0}]

\* What the two controllers return in a call.
TranslationVolts == {2}
RotationVolts == {-1, 1}

WallsIdle == NewStore

InitTracker == WallsIdle /\ SearchIdle /\ TrackerIdle /\ RestIdle

\* tracker.track(state, target)
Track(state, target, vol_v, vol_w) ==
    /\ ~tracker.panicked
    /\ \E m \in {track(tracker, state, target, vol_v, vol_w)} :
          /\ m.tracker.xi <= MaxXi
          /\ m.tracker.xi >= -MaxXi
          /\ tracker' = m.tracker
          /\ lastTrack' = [called |-> TRUE, state |-> state, target |-> target,
                           computed |-> m.computed, branch |-> m.branch,
                           left |-> m.left, right |-> m.right,
                           prior_left |-> tracker.left_motor,
                           prior_right |-> tracker.right_motor,
                           xi |-> tracker.xi]
    /\ UNCHANGED <<walls, fresh, lastUpdate, nUpdates, text, reparsed, found, restVars>>

\* tracker.stop()
Stop ==
    /\ ~tracker.panicked
    /\ tracker' = stop(tracker)
    /\ UNCHANGED <<walls, fresh, lastUpdate, nUpdates, text, reparsed, found, lastTrack, restVars>>

NextTracker ==
    \/ \E state \in TrackStates, target \in TrackTargets,
          vol_v \in TranslationVolts, vol_w \in RotationVolts :
          Track(state, target, vol_v, vol_w)
    \/ Stop

SpecTracker == InitTracker /\ [][NextTracker]_vars

----------------------------------------------------------------------------
(* Properties of the wall store.                                           *)

Checked(a, c) == wall_state(a, c) \in {CheckedAbsent, CheckedPresent}

\* A step that is one Walls::update call on the store.
UpdateStep == nUpdates' = nUpdates + 1

\* C1, as stated: over the update calls on a wall store, a wall that
\* wall_state reports Checked is never reported Unchecked afterwards.
C1_Monotone ==
    [][UpdateStep =>
         \A c \in ValidCoords :
            Checked(walls, c) => wall_state(walls', c) # Unchecked]_vars

\* C1, amended: update is an unconditional write, so a Checked wall is
\* reported Unchecked after an update call exactly when that call wrote
\* Unchecked to the same coordinate; every other update call leaves each
\* Checked wall with the state it had.
C1_RevertsOnlyByUncheckedWrite ==
    [][UpdateStep =>
         \A c \in ValidCoords :
            Checked(walls, c) =>
               IF lastUpdate'.coord = c
               THEN wall_state(walls', c) = lastUpdate'.state
               ELSE wall_state(walls', c) = wall_state(walls, c)]_vars

\* C1 witness: the second update wrote Unchecked over a Checked wall while
\* another wall stored in the same byte stayed Checked{exists: false}.
C1_Witness ==
    /\ nUpdates = 2
    /\ lastUpdate.called
    /\ lastUpdate.state = Unchecked
    /\ lastUpdate.prior # Unchecked
    /\ wall_state(walls, lastUpdate.coord) = Unchecked
    /\ \E c \in ValidCoords :
          /\ c # lastUpdate.coord
          /\ as_index(c) \div 4 = as_index(lastUpdate.coord) \div 4
          /\ wall_state(walls, c) = CheckedAbsent

\* The perimeter walls the store holds: the right wall of the cells of
\* column W-1 and the top wall of the cells of row W-1.
Perimeter(c) == (~c.is_top /\ c.x = W - 1) \/ (c.is_top /\ c.y = W - 1)

\* C7: right after Walls::new() every stored perimeter wall is
\* Checked{exists: true} and every other wall of the grid is Unchecked.
C7_NewStore ==
    fresh =>
       \A c \in ValidCoords :
          wall_state(walls, c) = IF Perimeter(c) THEN CheckedPresent ELSE Unchecked

\* C7 witness: a store built by Walls::new() after an earlier store had
\* been updated.
C7_Witness == fresh /\ nUpdates > 0

\* C9: the slot of every valid coordinate lies in an array of W*W/2 bytes,
\* that is as_index(coord) < 2*W*W; stated of the coordinates update is
\* called with.
C9_IndexInsideArray ==
    lastUpdate.called => as_index(lastUpdate.coord) < 2 * W * W

----------------------------------------------------------------------------
(* Properties of the ASCII format.                                         *)

\* C6: for a store reached from Walls::new by update calls and
\* s = to_string() of it, formatting the store parsed from s gives s.
C6_RoundTrip == reparsed => Walls_fmt(walls) = text.s

\* C6 witness: a text with a present interior top wall and an absent
\* interior right wall has been parsed back into a store.
C6_Witness ==
    /\ reparsed
    /\ walls # Aborted
    /\ wall_state(walls, Coord(1, 2, TRUE)) = CheckedPresent
    /\ wall_state(walls, Coord(2, 1, FALSE)) = CheckedAbsent

----------------------------------------------------------------------------
(* Properties of the explorer.  The optimistic graph is defined here from  *)
(* the geometry of the grid, independently of the searching code: its      *)
(* nodes are the walls of the grid, and Unchecked walls count as absent.   *)

Passable(a, c) == wall_state(a, c) # CheckedPresent

\* The four walls perpendicular to c that touch it.
Adjacent(c) ==
    { d \in ValidCoords :
        /\ d.is_top # c.is_top
        /\ IF c.is_top
           THEN d.x \in {c.x, c.x - 1} /\ d.y \in {c.y, c.y + 1}
           ELSE d.x \in {c.x, c.x + 1} /\ d.y \in {c.y, c.y - 1} }

\* The walls strictly between two walls of one column (top walls) or of
\* one row (right walls): the walls a slide from one to the other passes.
Between(c, d) ==
    { e \in ValidCoords :
        /\ c.is_top = d.is_top /\ e.is_top = c.is_top
        /\ IF c.is_top
           THEN /\ c.x = d.x /\ e.x = c.x
                /\ (c.y < e.y /\ e.y < d.y) \/ (d.y < e.y /\ e.y < c.y)
           ELSE /\ c.y = d.y /\ e.y = c.y
                /\ (c.x < e.x /\ e.x < d.x) \/ (d.x < e.x /\ e.x < c.x) }

\* The walls a straight slide from c can stop at.
SlideTargets(a, c) ==
    { d \in ValidCoords \ {c} :
        /\ d.is_top = c.is_top
        /\ IF c.is_top THEN d.x = c.x ELSE d.y = c.y
        /\ Passable(a, d)
        /\ \A e \in Between(c, d) : Passable(a, e) }

\* One move of the optimistic graph: an extended-neighbour step.
Moves(a, c) == SlideTargets(a, c) \cup { d \in Adjacent(c) : Passable(a, d) }

\* One step of the graph the second BFS walks: the six walls around c.
Around(a, c) ==
    { d \in Adjacent(c) \cup SlideTargets(a, c) :
        /\ Passable(a, d)
        /\ d.is_top = c.is_top =>
              (IF c.is_top THEN d.y - c.y \in {-1, 1} ELSE d.x - c.x \in {-1, 1}) }

Unreached == 0 - 1

\* The least number of Moves steps from a wall of `from` to `to`.
RECURSIVE MoveDistance(_, _, _, _, _)
MoveDistance(a, frontier, seen, to, d) ==
    IF to \in frontier THEN d
    ELSE IF frontier = {} THEN Unreached
    ELSE Only({ MoveDistance(a, further, seen \cup further, to, d + 1)
                : further \in {UNION { Moves(a, c) : c \in frontier } \ seen} })

\* The least number of Around steps from a wall of `from` to `to`.
RECURSIVE AroundDistance(_, _, _, _, _)
AroundDistance(a, frontier, seen, to, d) ==
    IF to \in frontier THEN d
    ELSE IF frontier = {} THEN Unreached
    ELSE Only({ AroundDistance(a, further, seen \cup further, to, d + 1)
                : further \in {UNION { Around(a, c) : c \in frontier } \ seen} })

Range(seq) == { seq[i] : i \in 1..Len(seq) }

\* C2: when the goal is reachable, the path read off the predecessor map
\* of bfs_tree has no more moves than any start-to-goal path of the
\* optimistic graph.
C2_ShortestPath ==
    (found.called /\ found.path # <<>>) =>
       Len(found.path) - 1
          <= MoveDistance(walls, {found.start}, {found.start}, found.goal, 0)

\* The walls of the path from its i-th node on, with the walls slid past.
OnPath(path, i) ==
    { path[k] : k \in i..Len(path) }
       \cup UNION { Between(path[k], path[k + 1]) : k \in 1..(Len(path) - 1) }

\* C3, as stated: when search returns Ok(None), every wall of the
\* optimistic shortest path (its nodes, start and goal included, and the
\* walls slid past between consecutive nodes) is Checked.
C3_AllChecked ==
    (found.called /\ found.result = OkNone) =>
       \A c \in OnPath(found.path, 1) : Checked(walls, c)

\* C3, amended: when search returns Ok(None), every wall of the optimistic
\* shortest path other than the start (every later node, the goal
\* included, and every wall slid past between consecutive nodes) is
\* Checked.
C3_AllCheckedAfterStart ==
    (found.called /\ found.result = OkNone) =>
       \A c \in OnPath(found.path, 2) : Checked(walls, c)

\* C3 witness: search returned Ok(None) for a path with a slide over at
\* least one wall.
C3_Witness ==
    /\ found.called
    /\ found.result = OkNone
    /\ \E k \in 1..(Len(found.path) - 1) :
          Between(found.path[k], found.path[k + 1]) # {}

\* The unchecked walls of a path, as the amended C3 counts them.
UncheckedOn(a, path) == { c \in OnPath(path, 2) : wall_state(a, c) = Unchecked }

\* The walls next to `current` that the second BFS can reach from `from`.
ReachableCandidates(a, from, current) ==
    { c \in ValidCoords :
        /\ current \in Around(a, c)
        /\ AroundDistance(a, from, from, c, 0) # Unreached }

\* The result C4 gives for a call of search.
C4_Expected(a, start, goal, current) ==
    IF MoveDistance(a, {start}, {start}, goal, 0) = Unreached THEN Unreachable
    ELSE Only({
        IF unchecked = {} THEN OkNone
        ELSE IF ReachableCandidates(a, unchecked, current) = {} THEN Unreachable
        ELSE OkSome
        : unchecked \in {UncheckedOn(a, restore_path(start, goal,
                                                    bfs_tree(start, goal, a).prev))} })

\* C4: search returns Err(Unreachable) exactly when the goal is not
\* reachable from the start or the unchecked set is non-empty and no
\* candidate is reachable from it; otherwise it returns Ok, None when the
\* unchecked set is empty and Some when it is not.
C4_Result ==
    found.called =>
       found.result = C4_Expected(walls, found.start, found.goal, found.current)

\* C5: when search returns Some, every candidate is a neighbour of the
\* current coordinate connected to an unchecked wall of the path through
\* walls that are not Checked{exists: true}; the candidates are in
\* non-decreasing BFS distance from the unchecked set, the first being a
\* nearest one; and in the scenario of test_search the list is exactly
\* [(2,1,right), (3,1,top)].
C5_Candidates ==
    (found.called /\ found.result = OkSome) =>
       LET from == Range(found.unchecked)
           dist(c) == AroundDistance(walls, from, from, c, 0)
           cands == found.candidates
       IN  /\ cands # <<>>
           /\ \A i \in 1..Len(cands) :
                 /\ cands[i] \in ValidCoords
                 /\ found.current \in Around(walls, cands[i])
                 /\ dist(cands[i]) # Unreached
           /\ \A i \in 1..(Len(cands) - 1) : dist(cands[i]) <= dist(cands[i + 1])
           /\ \A c \in ReachableCandidates(walls, from, found.current) :
                 dist(cands[1]) <= dist(c)
           /\ ( /\ walls = TestSearchMaze
                /\ found.start = Coord(0, 0, TRUE)
                /\ found.goal = Coord(1, 0, TRUE)
                /\ found.current = Coord(W - 1, 0, TRUE) )
              => cands = <<Coord(2, 1, FALSE), Coord(W - 1, 1, TRUE)>>

\* C5 witness: the call of test_search has returned its two candidates.
C5_Witness ==
    /\ found.called
    /\ found.result = OkSome
    /\ walls = TestSearchMaze
    /\ found.start = Coord(0, 0, TRUE)
    /\ found.goal = Coord(1, 0, TRUE)
    /\ found.current = Coord(W - 1, 0, TRUE)
    /\ Len(found.candidates) = 2

\* C8: Coordinate::new returns None exactly when x >= W or y >= W, and
\* every coordinate created while searching lies in the grid.
C8_InsideGrid ==
    /\ \A x \in 0..(2 * W), y \in 0..(2 * W), is_top \in BOOLEAN :
          (Coordinate_new(x, y, is_top) = None) <=> (x >= W \/ y >= W)
    /\ found.called => \A c \in found.created : InGrid(c)

----------------------------------------------------------------------------
(* Properties of the tracker.                                              *)

\* C10: a track call whose state and target are more than
\* fail_safe_distance apart drives both motors to zero, applies no voltage
\* of the control law, and fails for good: the tracker has panicked, so no
\* later call runs and the motors stay at zero.
C10_FailSafeEffect ==
    /\ ( /\ lastTrack.called
         /\ distance2(lastTrack.state, lastTrack.target)
               > fail_safe_distance * fail_safe_distance )
       => /\ tracker.panicked
          /\ ~lastTrack.computed
    /\ tracker.panicked
       => /\ tracker.left_motor = 0
          /\ tracker.right_motor = 0
          /\ ~ENABLED NextTracker

\* C10 witness: the fail-safe fired in a call made while both motors were
\* driven with a non-zero voltage.
C10_Witness ==
    /\ lastTrack.called
    /\ distance2(lastTrack.state, lastTrack.target)
          > fail_safe_distance * fail_safe_distance
    /\ tracker.panicked
    /\ lastTrack.prior_left # 0
    /\ lastTrack.prior_right # 0

Abs(n) == IF n < 0 THEN 0 - n ELSE n

\* C11: a track call that computes the control law takes the
\* high-velocity branch exactly when the absolute value of the integrator
\* xi it reads exceeds xi_threshold, for positive and for negative xi, and
\* the low-velocity branch otherwise.
C11_AbsBranch ==
    (lastTrack.called /\ lastTrack.computed)
       => (lastTrack.branch = "high" <=> Abs(lastTrack.xi) > xi_threshold)

----------------------------------------------------------------------------
(* The agent of src/agent.rs: the foreground's set_command and the tick's  *)
(* track_next around the queue of trajectories.                            *)

\* The capacity U3 of Queue<Trajectory, U3>
U3 == 3

\* The trajectory generate_search returns for the id-th command: a lazy
\* sequence of len targets, each target named by its fragment and its place.
generate_search(id, len) == [k \in 1..len |-> <<id, k>>]

\* A Queue::enqueue that never reports a full queue.
enqueue_Unbounded(q, item) == Append(q, item)

\* Queue::enqueue followed by .ok(): a full queue drops the item
enqueue(q, item) == IF Len(q) < U3 THEN Append(q, item) ELSE q

\* Mutex::try_lock: succeeds exactly when nobody holds the lock; it never waits
try_lock(a) == ~a.locked

\* The loop of track_next over a locked queue: next target of the front
\* trajectory, dequeueing exhausted trajectories; last_target once empty.
RECURSIVE tn_loop(_, _)
tn_loop(q, last) ==
    IF q = <<>>
    THEN [trajectories |-> q, target |-> last, fresh |-> FALSE]
    ELSE IF Head(q) # <<>>
         THEN [trajectories |-> <<Tail(Head(q))>> \o Tail(q),
               target |-> Head(Head(q)), fresh |-> TRUE]
         ELSE tn_loop(Tail(q), last)

\* A track_next that takes the queue whether or not the lock is held.
track_next_Unguarded(a) ==
    Only({
        [agent |-> [a EXCEPT !.trajectories = r.trajectories,
                             !.last_target = r.target],
         target |-> r.target,
         fresh |-> r.fresh]
        : r \in { tn_loop(a.trajectories, a.last_target) } })

\* SearchAgent::track_next: the target it picks, whether it came out of the
\* queue, and the agent afterwards.
track_next(a) ==
    Only({
        [agent |-> [a EXCEPT !.trajectories = r.trajectories,
                             !.last_target = r.target],
         target |-> r.target,
         fresh |-> r.fresh]
        : r \in { IF try_lock(a)
                  THEN tn_loop(a.trajectories, a.last_target)
                  ELSE [trajectories |-> a.trajectories,
                        target |-> a.last_target, fresh |-> FALSE] } })

\* How many set_command calls a run makes, and the longest trajectory.
MaxCommands == 5
MaxLen == 2

CoreIdle == NewStore /\ SearchIdle /\ TrackerIdle

InitAgent == CoreIdle /\ RestIdle

\* set_command: trajectory_generator.generate_search(&command.0, &command.1)
Generate(len) ==
    /\ setCommand.pc = "idle"
    /\ Len(agentLog.generated) < MaxCommands
    /\ \E t \in {generate_search(Len(agentLog.generated) + 1, len)} :
          /\ setCommand' = [pc |-> "generated", trajectory |-> t]
          /\ agentLog' = [agentLog EXCEPT !.generated = Append(@, t)]
    /\ UNCHANGED <<nonAgentVars, agent>>

\* set_command: self.trajectories.lock()
Lock ==
    /\ setCommand.pc = "generated"
    /\ ~agent.locked
    /\ agent' = [agent EXCEPT !.locked = TRUE]
    /\ setCommand' = [setCommand EXCEPT !.pc = "locked"]
    /\ UNCHANGED <<nonAgentVars, agentLog>>

\* set_command: trajectories.enqueue(trajectory).ok()
Enqueue ==
    /\ setCommand.pc = "locked"
    /\ agent' = [agent EXCEPT !.trajectories = enqueue(@, setCommand.trajectory)]
    /\ setCommand' = [pc |-> "enqueued"]
    /\ agentLog' = [agentLog EXCEPT !.enqueue =
                       [called |-> TRUE, before |-> agent.trajectories,
                        item |-> setCommand.trajectory,
                        after |-> agent'.trajectories]]
    /\ UNCHANGED nonAgentVars

\* set_command returns: the guard of the lock is dropped
Unlock ==
    /\ setCommand.pc = "enqueued"
    /\ agent' = [agent EXCEPT !.locked = FALSE]
    /\ setCommand' = [pc |-> "idle"]
    /\ UNCHANGED <<nonAgentVars, agentLog>>

\* track_next, called by the periodic interrupt: it runs to its end before
\* the foreground goes on.
TrackNext ==
    /\ \E r \in {track_next(agent)} :
          /\ agent' = r.agent
          /\ agentLog' = [agentLog EXCEPT
                !.emitted = IF r.fresh THEN Append(@, r.target) ELSE @,
                !.tick = [called |-> TRUE, locked |-> agent.locked,
                          before |-> agent.trajectories,
                          after |-> r.agent.trajectories,
                          last |-> agent.last_target,
                          target |-> r.target, fresh |-> r.fresh]]
    /\ UNCHANGED <<nonAgentVars, setCommand>>

NextAgent ==
    \/ \E len \in 0..MaxLen : Generate(len)
    \/ Lock
    \/ Enqueue
    \/ Unlock
    \/ TrackNext

SpecAgent == InitAgent /\ [][NextAgent]_vars

----------------------------------------------------------------------------
(* Properties of the agent.                                                *)

\* The last element of a non-empty sequence.
Last(seq) == seq[Len(seq)]

\* C12: track_next can always run to its end, whatever the foreground holds;
\* a track_next that runs while set_command holds the lock of the queue, or
\* that finds the queue empty, leaves the queue as it was and tracks the
\* last emitted target; it tracks nothing only if no target was ever
\* emitted.
C12_TickNeverWaits ==
    /\ ENABLED TrackNext
    /\ agent.last_target = (IF agentLog.emitted = <<>> THEN NoTarget
                            ELSE Last(agentLog.emitted))
    /\ (agentLog.tick.called /\ (agentLog.tick.locked \/ agentLog.tick.before = <<>>))
       => /\ agentLog.tick.after = agentLog.tick.before
          /\ agentLog.tick.target = agentLog.tick.last
          /\ ~agentLog.tick.fresh

\* C12 witness: a tick ran while set_command held the lock of a queue whose
\* front trajectory still had a target, and tracked the last emitted target.
C12_Witness ==
    /\ agentLog.tick.called
    /\ agentLog.tick.locked
    /\ agentLog.tick.before # <<>>
    /\ Head(agentLog.tick.before) # <<>>
    /\ agentLog.tick.target # NoTarget
    /\ agentLog.tick.target = agentLog.tick.last

\* C13: the queue never holds more than 3 trajectories, and a set_command
\* whose enqueue finds 3 in it leaves the queue as it was.
C13_Bounded ==
    /\ Len(agent.trajectories) <= 3
    /\ (agentLog.enqueue.called /\ Len(agentLog.enqueue.before) = 3)
       => agentLog.enqueue.after = agentLog.enqueue.before

\* C13 witness: set_command enqueued on a queue of 3 trajectories.
C13_Witness ==
    /\ agentLog.enqueue.called
    /\ Len(agentLog.enqueue.before) = 3
    /\ agent.trajectories = agentLog.enqueue.before

RECURSIVE Flatten(_)
Flatten(seqs) == IF seqs = <<>> THEN <<>> ELSE Head(seqs) \o Flatten(Tail(seqs))

IsPrefix(a, b) == Len(a) <= Len(b) /\ a = SubSeq(b, 1, Len(a))

\* C14: the targets handed to the tracker as fresh targets are, in order,
\* the targets of the generated trajectories, trajectory after trajectory in
\* the order set_command generated them, none skipped and none twice.
C14_ConsumedOnce ==
    IsPrefix(agentLog.emitted, Flatten(agentLog.generated))

----------------------------------------------------------------------------
(* The search operator of src/administrator/operator/search_operator.rs:   *)
(* tick, called by the periodic interrupt, and run, called by the          *)
(* foreground loop.  A node is named by the number of the store that made  *)
(* it the current node; the start node is 0.                               *)

\* How many ticks of a run are instructed a new node.
MaxStores == 3

\* SearchOperator::tick: instructed says whether maze.instruct returned
\* Some((direction, node)); the calls on the agent and the maze leave the
\* operator's fields alone.
SearchOperator_tick(op, instructed, node) ==
    IF instructed
    THEN [op EXCEPT !.current = node, !.is_updated = TRUE]
    ELSE op

\* A run that tests is_updated without clearing it.
run_swap_NoClear(op) == [op |-> op, proceed |-> op.is_updated]

\* SearchOperator::run: is_updated.compare_and_swap(true, false, Relaxed);
\* run goes on exactly when the previous value was true
run_swap(op) ==
    [op |-> [op EXCEPT !.is_updated = IF @ = TRUE THEN FALSE ELSE @],
     proceed |-> op.is_updated]

InitSearchOperator == CoreIdle /\ RestIdle

\* tick()
OpTick(instructed) ==
    /\ instructed => opLog.stores < MaxStores
    /\ searchOp' = SearchOperator_tick(searchOp, instructed, opLog.stores + 1)
    /\ opLog' = [opLog EXCEPT
          !.stores = IF instructed THEN @ + 1 ELSE @,
          !.rises = IF instructed /\ ~searchOp.is_updated THEN @ + 1 ELSE @,
          !.preempted = @ \/ (instructed /\ opRun.pc # "idle")]
    /\ UNCHANGED <<nonSearchOpVars, opRun>>

\* run(): the compare_and_swap and the early return
RunSwap ==
    /\ opRun.pc = "idle"
    /\ \E r \in {run_swap(searchOp)} :
          /\ searchOp' = r.op
          /\ opRun' = [pc |-> IF r.proceed THEN "swapped" ELSE "idle"]
          /\ opLog' = [opLog EXCEPT !.swaps = IF r.proceed THEN @ + 1 ELSE @]
    /\ UNCHANGED <<nonSearchOpVars>>

\* run(): let current = self.current.get()
RunRead ==
    /\ opRun.pc = "swapped"
    /\ opRun' = [pc |-> "read", current |-> searchOp.current]
    /\ UNCHANGED <<nonSearchOpVars, searchOp, opLog>>

\* run(): solver.next_node_candidates(current, &maze) and the return
RunSolve ==
    /\ opRun.pc = "read"
    /\ opRun' = [pc |-> "idle"]
    /\ opLog' = [opLog EXCEPT !.invocations = @ + 1, !.solved = opRun.current]
    /\ UNCHANGED <<nonSearchOpVars, searchOp>>

Run == RunSwap \/ RunRead \/ RunSolve

NextSearchOperator ==
    \/ \E instructed \in BOOLEAN : OpTick(instructed)
    \/ RunSwap
    \/ RunRead
    \/ RunSolve

SpecSearchOperator == InitSearchOperator /\ [][NextSearchOperator]_vars

\* The foreground loop keeps calling run and run is never suspended for good.
SpecSearchOperatorFair == SpecSearchOperator /\ WF_vars(Run)

\* C15: the solver is invoked only by a run that has swapped is_updated from
\* true to false, at most once for each time the flag was set, and every
\* node a tick stores is followed by a solver invocation on that node or on
\* a node stored later.
C15_UpdateSignal ==
    /\ [](/\ opLog.invocations <= opLog.swaps
          /\ opLog.swaps <= opLog.rises + 1
          /\ opRun.pc # "idle" => opLog.swaps = opLog.invocations + 1
          /\ opLog.solved <= searchOp.current)
    /\ \A k \in 1..MaxStores :
          (searchOp.current = k) ~> (opLog.solved >= k)

\* C15 witness: a tick stored a node while run was under way, and the
\* solver has since been invoked on the latest node.
C15_Witness ==
    /\ opLog.preempted
    /\ searchOp.current = MaxStores
    /\ opLog.solved = searchOp.current
    /\ opLog.invocations >= 2

----------------------------------------------------------------------------
(* The operator of src/operator.rs: tick, called by the periodic           *)
(* interrupt, and the loop of run in the foreground.  Its searcher is the  *)
(* search operator above driving the agent of src/agent.rs: tick tracks    *)
(* the next target, search plans and hands the agent a command.            *)

\* The modes Operator::tick and Operator::run match on.
Modes == {"Idle", "Search", "FastRun", "Select"}

\* How many commands the planner of a run produces.
MaxPlans == 2

\* The estimated state and the target geometry of a tick: the robot is on its target.
TickState == [x |-> 0, y |-> 0, theta |-> 0]
TickTarget == [x |-> 0, y |-> 0, ax |-> 0, ay |-> 0]

\* searcher.tick(&maze, &agent): the tick of the search operator, and the
\* agent's track_next handing its target to the tracker.
Searcher_tick(op, a, t, instructed, node) ==
    Only({
        [searchOp |-> SearchOperator_tick(op, instructed, node),
         agent |-> r.agent,
         tracker |-> IF r.target = NoTarget THEN t
                     ELSE track(t, TickState, TickTarget, 2, 1).tracker,
         target |-> r.target,
         fresh |-> r.fresh]
        : r \in {track_next(a)} })

\* Operator::store_if_switch_enabled
store_if_switch_enabled(o, mode) ==
    IF o.switch THEN [o EXCEPT !.mode = mode] ELSE o

\* Operator::tick: the mode it leaves behind
Operator_tick_mode(o) ==
    IF o.mode = "Select" THEN o ELSE store_if_switch_enabled(o, "Select")

InitOperator == CoreIdle /\ RestIdle

\* Operator::tick
OperatorTick(instructed) ==
    /\ instructed => (operator.mode = "Search" /\ opLog.stores < MaxStores)
    /\ IF operator.mode = "Search"
       THEN \E r \in {Searcher_tick(searchOp, agent, tracker, instructed,
                                    opLog.stores + 1)} :
               /\ searchOp' = r.searchOp
               /\ agent' = r.agent
               /\ tracker' = r.tracker
               /\ agentLog' = [agentLog EXCEPT
                     !.emitted = IF r.fresh THEN Append(@, r.target) ELSE @,
                     !.tick = [called |-> TRUE, locked |-> agent.locked,
                               before |-> agent.trajectories,
                               after |-> r.agent.trajectories,
                               last |-> agent.last_target,
                               target |-> r.target, fresh |-> r.fresh]]
               /\ opLog' = [opLog EXCEPT
                     !.stores = IF instructed THEN @ + 1 ELSE @,
                     !.rises = IF instructed /\ ~searchOp.is_updated THEN @ + 1 ELSE @,
                     !.preempted = @ \/ (instructed /\ opRun.pc # "idle")]
       ELSE UNCHANGED <<searchOp, agent, tracker, agentLog, opLog>>
    /\ operator' = Operator_tick_mode(operator)
    /\ UNCHANGED <<walls, fresh, lastUpdate, nUpdates, text, reparsed, found,
                   lastTrack, setCommand, opRun, nonOperatorVars>>

\* The user presses or releases the switch.
SwitchToggle ==
    /\ operator' = [operator EXCEPT !.switch = ~@]
    /\ UNCHANGED <<coreVars, agentVars, searchOpVars, nonOperatorVars>>

\* run: match self.mode.load(Relaxed) (the Idle and the FastRun arm do nothing)
FgLoad ==
    /\ operator.pc = "loop"
    /\ operator.mode \in {"Search", "Select"}
    /\ operator' = [operator EXCEPT
          !.pc = IF operator.mode = "Search" THEN "search" ELSE "select_reset"]
    /\ UNCHANGED <<coreVars, agentVars, searchOpVars, nonOperatorVars>>

\* searcher.search: the compare_and_swap; search returns true when the
\* flag was not set
FgSwap ==
    /\ operator.pc = "search"
    /\ opRun.pc = "idle"
    /\ \E r \in {run_swap(searchOp)} :
          /\ searchOp' = r.op
          /\ opRun' = [pc |-> IF r.proceed THEN "swapped" ELSE "idle"]
          /\ opLog' = [opLog EXCEPT !.swaps = IF r.proceed THEN @ + 1 ELSE @]
          /\ operator' = [operator EXCEPT !.pc = IF r.proceed THEN @ ELSE "loop"]
    /\ UNCHANGED <<coreVars, agentVars, nonOperatorVars>>

\* searcher.search: let current = self.current.get()
FgRead ==
    /\ operator.pc = "search"
    /\ opRun.pc = "swapped"
    /\ opRun' = [pc |-> "read", current |-> searchOp.current]
    /\ UNCHANGED <<coreVars, agentVars, searchOp, opLog, operator, nonOperatorVars>>

\* searcher.search: the solver returns candidates (planned) or None; None
\* makes search return false
FgSolve(planned) ==
    /\ operator.pc = "search"
    /\ opRun.pc = "read"
    /\ planned => operator.plans < MaxPlans
    /\ opRun' = [pc |-> "idle"]
    /\ opLog' = [opLog EXCEPT !.invocations = @ + 1, !.solved = opRun.current]
    /\ operator' = [operator EXCEPT
          !.pc = IF planned THEN "set_command" ELSE "store_fastrun",
          !.plans = IF planned THEN @ + 1 ELSE @]
    /\ UNCHANGED <<coreVars, agentVars, searchOp, nonOperatorVars>>

\* searcher.search: agent.set_command, the generation of the trajectory
FgGenerate(len) ==
    /\ operator.pc = "set_command"
    /\ setCommand.pc = "idle"
    /\ \E t \in {generate_search(Len(agentLog.generated) + 1, len)} :
          /\ setCommand' = [pc |-> "generated", trajectory |-> t]
          /\ agentLog' = [agentLog EXCEPT !.generated = Append(@, t)]
    /\ UNCHANGED <<coreVars, searchOpVars, operator, agent, nonOperatorVars>>

\* agent.set_command: lock, enqueue, and the return to the loop of run
FgLock ==
    /\ operator.pc = "set_command"
    /\ setCommand.pc = "generated"
    /\ ~agent.locked
    /\ agent' = [agent EXCEPT !.locked = TRUE]
    /\ setCommand' = [setCommand EXCEPT !.pc = "locked"]
    /\ UNCHANGED <<coreVars, searchOpVars, operator, agentLog, nonOperatorVars>>

FgEnqueue ==
    /\ operator.pc = "set_command"
    /\ setCommand.pc = "locked"
    /\ agent' = [agent EXCEPT !.trajectories = enqueue(@, setCommand.trajectory)]
    /\ setCommand' = [pc |-> "enqueued"]
    /\ agentLog' = [agentLog EXCEPT !.enqueue =
                       [called |-> TRUE, before |-> agent.trajectories,
                        item |-> setCommand.trajectory,
                        after |-> agent'.trajectories]]
    /\ UNCHANGED <<coreVars, searchOpVars, operator, nonOperatorVars>>

FgUnlock ==
    /\ operator.pc = "set_command"
    /\ setCommand.pc = "enqueued"
    /\ agent' = [agent EXCEPT !.locked = FALSE]
    /\ setCommand' = [pc |-> "idle"]
    /\ operator' = [operator EXCEPT !.pc = "loop"]
    /\ UNCHANGED <<coreVars, searchOpVars, agentLog, nonOperatorVars>>

\* run: self.mode.store(FastRun, Relaxed) after search returned false
FgStoreFastRun ==
    /\ operator.pc = "store_fastrun"
    /\ operator' = [operator EXCEPT !.mode = "FastRun", !.pc = "loop"]
    /\ UNCHANGED <<coreVars, agentVars, searchOpVars, nonOperatorVars>>

\* mode_select: counter.reset(); let mut mode = Mode::Idle
FgSelectReset ==
    /\ operator.pc = "select_reset"
    /\ operator' = [operator EXCEPT !.pc = "select_wait", !.chosen = "Idle"]
    /\ UNCHANGED <<coreVars, agentVars, searchOpVars, nonOperatorVars>>

\* mode_select: while self.switch.is_enabled() {}
FgSelectWait ==
    /\ operator.pc = "select_wait"
    /\ ~operator.switch
    /\ operator' = [operator EXCEPT !.pc = "select_count"]
    /\ UNCHANGED <<coreVars, agentVars, searchOpVars, nonOperatorVars>>

\* mode_select: the body of while !self.switch.is_enabled()
FgSelectCount(mode) ==
    /\ operator.pc = "select_count"
    /\ ~operator.switch
    /\ operator' = [operator EXCEPT !.chosen = mode]
    /\ UNCHANGED <<coreVars, agentVars, searchOpVars, nonOperatorVars>>

\* mode_select: self.mode.store(mode, Relaxed) once the switch is pressed
FgSelectStore ==
    /\ operator.pc = "select_count"
    /\ operator.switch
    /\ operator' = [operator EXCEPT !.mode = operator.chosen, !.pc = "select_release"]
    /\ UNCHANGED <<coreVars, agentVars, searchOpVars, nonOperatorVars>>

\* mode_select: the last while self.switch.is_enabled() {}
FgSelectRelease ==
    /\ operator.pc = "select_release"
    /\ ~operator.switch
    /\ operator' = [operator EXCEPT !.pc = "loop"]
    /\ UNCHANGED <<coreVars, agentVars, searchOpVars, nonOperatorVars>>

NextOperator ==
    \/ \E instructed \in BOOLEAN : OperatorTick(instructed)
    \/ SwitchToggle
    \/ FgLoad
    \/ FgSwap
    \/ FgRead
    \/ \E planned \in BOOLEAN : FgSolve(planned)
    \/ \E len \in 1..MaxLen : FgGenerate(len)
    \/ FgLock
    \/ FgEnqueue
    \/ FgUnlock
    \/ FgStoreFastRun
    \/ FgSelectReset
    \/ FgSelectWait
    \/ \E mode \in Modes : FgSelectCount(mode)
    \/ FgSelectStore
    \/ FgSelectRelease

SpecOperator == InitOperator /\ [][NextOperator]_vars

----------------------------------------------------------------------------
(* Properties of the operator.                                             *)

\* Both motors are at zero and no queued trajectory has a target left.
Parked ==
    /\ tracker.left_motor = 0
    /\ tracker.right_motor = 0
    /\ \A i \in 1..Len(agent.trajectories) : agent.trajectories[i] = <<>>

\* C16: the mode changes from Search to FastRun only when the robot has
\* parked: not while the motors are driven, nor while a queued trajectory
\* has targets left.
C16_FastRunOnlyWhenParked ==
    [][(operator.mode = "Search" /\ operator'.mode = "FastRun") => Parked]_vars

\* A plan is being computed or its command is being handed to the agent.
PlanInFlight == opRun.pc # "idle" \/ setCommand.pc # "idle"

\* C17: whenever the mode changes to Select or Idle, the motors have been
\* driven to zero before the new mode is stored, and the queue of
\* trajectories and the plan in flight are discarded.
C17_Cancellation ==
    [][(operator'.mode # operator.mode /\ operator'.mode \in {"Select", "Idle"})
         => /\ tracker.left_motor = 0
            /\ tracker.right_motor = 0
            /\ tracker'.left_motor = 0
            /\ tracker'.right_motor = 0
            /\ agent'.trajectories = <<>>
            /\ ~PlanInFlight']_vars

----------------------------------------------------------------------------
(* The return setup operator of src/operators/return_setup_operator.rs.    *)

\* How many ticks a run makes, and the longest the agent tracks before it
\* reports Completed.
MaxTicks == 4
MaxSpin == 2

\* The command Commander::setup_command returns.
setup_command == 1

\* The agent of a run: track_next reports Completed from its limit-th call
\* on; set_command keeps the command and counts its calls.
NewReturnSetupAgent(limit) ==
    [command |-> NoCall, commands |-> 0, state |-> 0, limit |-> limit]

\* ReturnSetupCommandConsumer::set_command
rs_set_command(a, command) ==
    [a EXCEPT !.command = [called |-> TRUE, value |-> command], !.commands = @ + 1]

\* ReturnSetupAgent::track_next: failed says the agent reports an error of
\* its own
rs_track_next(a, failed) ==
    IF failed THEN [agent |-> a, result |-> "Other"]
    ELSE IF a.state >= a.limit THEN [agent |-> a, result |-> "Completed"]
    ELSE [agent |-> [a EXCEPT !.state = @ + 1], result |-> "Ok"]

\* ReturnSetupOperator::new
ReturnSetupOperator_new(a, command) ==
    [agent |-> rs_set_command(a, command), is_completed |-> FALSE]

\* A tick that swallows Completed without storing the flag.
ReturnSetupOperator_tick_Forgets(op, failed) ==
    Only({
        [op |-> [op EXCEPT !.agent = r.agent],
         received |-> r.result,
         result |-> IF r.result = "Other" THEN "Err" ELSE "Ok"]
        : r \in {rs_track_next(op.agent, failed)} })

\* ReturnSetupOperator::tick
ReturnSetupOperator_tick(op, failed) ==
    Only({
        [op |-> [op EXCEPT !.agent = r.agent,
                           !.is_completed = IF r.result = "Completed" THEN TRUE ELSE @],
         received |-> r.result,
         result |-> IF r.result = "Other" THEN "Err" ELSE "Ok"]
        : r \in {rs_track_next(op.agent, failed)} })

\* ReturnSetupOperator::run
ReturnSetupOperator_run(op) ==
    IF op.is_completed THEN "Err(Ok(IncompletedError))" ELSE "Ok"

InitReturnSetup ==
    /\ CoreIdle /\ AgentIdle /\ SearchOperatorIdle /\ OperatorIdle /\ CalcIdle
    /\ \E limit \in 0..MaxSpin :
          returnSetup = ReturnSetupOperator_new(NewReturnSetupAgent(limit), setup_command)
    /\ rsLog = [ticks |-> 0, completed |-> 0, tick |-> NoCall, run |-> NoCall]

\* operator.tick()
RsTick(failed) ==
    /\ rsLog.ticks < MaxTicks
    /\ \E r \in {ReturnSetupOperator_tick(returnSetup, failed)} :
          /\ returnSetup' = r.op
          /\ rsLog' = [rsLog EXCEPT
                !.ticks = @ + 1,
                !.completed = IF r.received = "Completed" THEN @ + 1 ELSE @,
                !.tick = [called |-> TRUE, received |-> r.received, result |-> r.result]]
    /\ UNCHANGED <<coreVars, agentVars, searchOpVars, operatorVars, calcVars>>

\* operator.run()
RsRun ==
    /\ rsLog' = [rsLog EXCEPT !.run =
                    [called |-> TRUE, completed |-> rsLog.completed,
                     result |-> ReturnSetupOperator_run(returnSetup)]]
    /\ UNCHANGED <<coreVars, agentVars, searchOpVars, operatorVars, returnSetup, calcVars>>

NextReturnSetup ==
    \/ \E failed \in BOOLEAN : RsTick(failed)
    \/ RsRun

SpecReturnSetup == InitReturnSetup /\ [][NextReturnSetup]_vars

\* C18: the setup command was handed to the agent exactly once; run returns
\* Ok(()) while no tick has received Completed and reports completion ever
\* after the first tick that received it, the flag never being reset; a
\* tick that receives Completed returns Ok(()).
C18_Completion ==
    /\ returnSetup.agent.commands = 1
    /\ returnSetup.agent.command = [called |-> TRUE, value |-> setup_command]
    /\ returnSetup.is_completed = (rsLog.completed > 0)
    /\ rsLog.run.called
       => rsLog.run.result = (IF rsLog.run.completed > 0
                              THEN "Err(Ok(IncompletedError))" ELSE "Ok")
    /\ (rsLog.tick.called /\ rsLog.tick.received = "Completed")
       => rsLog.tick.result = "Ok"

\* C18 witness: a run reported completion after two ticks had received
\* Completed and a later tick had failed with the agent's own error.
C18_Witness ==
    /\ rsLog.run.called
    /\ rsLog.run.result = "Err(Ok(IncompletedError))"
    /\ rsLog.run.completed >= 2
    /\ rsLog.tick.called
    /\ rsLog.tick.received = "Other"

----------------------------------------------------------------------------
(* The slalom trajectory of src/trajectory_generator/slalom_generator.rs.  *)
(* Times are whole numbers of a time unit; lengths are counted in sixths   *)
(* of v * period, so that the Simpson sums are whole numbers.              *)

\* The largest t_end and period of a generated trajectory, and how many
\* next calls a run makes on an exhausted trajectory.
MaxTEnd == 6
MaxPeriod == 3
MaxNones == 3

\* angle_calculator.calculate at twice the time t2: the heading in quarter
\* turns, a quarter turn made at half of t_end.
angle_calculate(tr, t2) == IF t2 < tr.t_end THEN 0 ELSE 1

\* SlalomTrajectory::new: t starts at Default::default()
SlalomTrajectory_new(t_end, period, x_start, y_start) ==
    [t |-> 0, t_end |-> t_end, period |-> period, x |-> x_start, y |-> y_start]

\* A next that stops one period early.
SlalomTrajectory_next_StopsEarly(tr) ==
    IF tr.t >= tr.t_end
    THEN [trajectory |-> tr, item |-> NoTarget]
    ELSE [trajectory |-> [tr EXCEPT !.t = @ + tr.period],
          item |-> <<tr.x, tr.y, angle_calculate(tr, 2 * tr.t)>>]

\* SlalomTrajectory::next: the trajectory afterwards and the item returned
\* (NoTarget for None; position and heading for Some(target))
SlalomTrajectory_next(tr) ==
    IF tr.t > tr.t_end
    THEN [trajectory |-> tr, item |-> NoTarget]
    ELSE LET th0 == sincosf(angle_calculate(tr, 2 * tr.t))
             th1 == sincosf(angle_calculate(tr, 2 * tr.t + tr.period))
             th2 == sincosf(angle_calculate(tr, 2 * (tr.t + tr.period)))
         IN  [trajectory |->
                 [tr EXCEPT !.t = @ + tr.period,
                            !.x = @ + (th0.cos + 4 * th1.cos + th2.cos),
                            !.y = @ + (th0.sin + 4 * th1.sin + th2.sin)],
              item |-> <<tr.x, tr.y, angle_calculate(tr, 2 * tr.t)>>]

InitSlalom ==
    /\ CoreIdle /\ AgentIdle /\ SearchOperatorIdle /\ OperatorIdle /\ ReturnSetupIdle
    /\ angle = NoCall /\ LateIdle
    /\ \E t_end \in (0 - 1)..MaxTEnd, period \in 1..MaxPeriod :
          slalom = [called |-> FALSE,
                    trajectory |-> SlalomTrajectory_new(t_end, period, 0, 0),
                    somes |-> 0, nones |-> 0]

\* trajectory.next()
SlalomNext ==
    /\ slalom.nones < MaxNones
    /\ \E r \in {SlalomTrajectory_next(slalom.trajectory)} :
          slalom' = [called |-> TRUE,
                     trajectory |-> r.trajectory,
                     before |-> slalom.trajectory,
                     item |-> r.item,
                     somes |-> IF r.item # NoTarget THEN slalom.somes + 1
                               ELSE slalom.somes,
                     nones |-> IF r.item = NoTarget THEN slalom.nones + 1
                               ELSE slalom.nones]
    /\ UNCHANGED <<coreVars, agentVars, searchOpVars, operatorVars, returnSetupVars, angle, lateVars>>

NextSlalom == SlalomNext

SpecSlalom == InitSlalom /\ [][NextSlalom]_vars

\* How many times t <= t_end holds for t = 0, period, 2 * period, ...
Periods(tr) == IF tr.t_end < 0 THEN 0 ELSE (tr.t_end \div tr.period) + 1

----------------------------------------------------------------------------
(* normalize_angle of mousecore2/src/tracker.rs; angles are whole degrees. *)

\* core::f32::consts::PI and TAU, in degrees
PI == 180
TAU == 360

\* The largest angle, to either side, a run normalizes.
MaxAngle == 720

\* f32::rem_euclid for a positive rhs
rem_euclid(a, b) == a % b

\* A normalize_angle that sends a half turn to the negative side.
normalize_angle_HalfTurnNegative(x) ==
    LET raw_angle == rem_euclid(x, TAU)
    IN  IF raw_angle >= PI THEN raw_angle - TAU ELSE raw_angle

\* normalize_angle
normalize_angle(x) ==
    LET raw_angle == rem_euclid(x, TAU)
    IN  IF raw_angle > PI THEN raw_angle - TAU ELSE raw_angle

InitAngle ==
    /\ CoreIdle /\ AgentIdle /\ SearchOperatorIdle /\ OperatorIdle /\ ReturnSetupIdle
    /\ slalom = NoCall /\ LateIdle
    /\ angle = NoCall

\* normalize_angle(x)
Normalize(x) ==
    /\ angle' = [called |-> TRUE, x |-> x, result |-> normalize_angle(x)]
    /\ UNCHANGED <<coreVars, agentVars, searchOpVars, operatorVars, returnSetupVars, slalom, lateVars>>

NextAngle == \E x \in (0 - MaxAngle)..MaxAngle : Normalize(x)

SpecAngle == InitAngle /\ [][NextAngle]_vars

\* C20: normalize_angle(x) lies in (-pi, pi] and differs from x by a whole
\* number of turns; 45, 180, -45, -300 and -660 degrees map to 45, 180,
\* -45, 60 and 60 degrees.
C20_Normalized ==
    /\ angle.called
       => /\ angle.result > 0 - PI
          /\ angle.result <= PI
          /\ \E k \in (0 - MaxAngle)..MaxAngle : angle.result = angle.x + k * TAU
    /\ (angle.called /\ angle.x = 45) => angle.result = 45
    /\ (angle.called /\ angle.x = 180) => angle.result = 180
    /\ (angle.called /\ angle.x = 0 - 45) => angle.result = 0 - 45
    /\ (angle.called /\ angle.x = 0 - 300) => angle.result = 60
    /\ (angle.called /\ angle.x = 0 - 660) => angle.result = 60

\* C20 witness: -660 degrees has been normalized to 60 degrees.
C20_Witness ==
    /\ angle.called
    /\ angle.x = 0 - 660
    /\ angle.result = 60

----------------------------------------------------------------------------
(* The magnetic encoder MA702GQ of sensors2/src/encoder.rs.                *)

\* core::u16::MAX, the mask of get_lower_bits
U16_MAX == 65535

\* core::i16::MAX
I16_MAX == 32767

\* MA702GQ::RESOLUTION_PER_ROTATION; as a power of two it divides an i16
\* exactly in f32, so an angle is kept as the pair <<count, resolution>>.
RESOLUTION_PER_ROTATION == 1024

\* v as i16 for a u16 v: the same sixteen bits read in two's complement
as_i16(v) == IF v > I16_MAX THEN v - (U16_MAX + 1) ELSE v

\* MA702GQ::get_lower_bits
get_lower_bits(val) == BitAnd(val, U16_MAX)

\* MA702GQ::new
MA702GQ_new == [called |-> FALSE, before_count |-> 0, panicked |-> FALSE]

\* The values qei.count().into() yields in the runs, as u32.
Counts ==
    {0, 1, 2, 1023, 1024, 32767, 32768, 32769, 33792, 65534, 65535, 65536, 98304}

\* MA702GQ::angle when the counter reads `count`.  The negation of the else
\* branch overflows for i16::MIN: with overflow checks (debug builds) it
\* panics, without them (release builds) it wraps to i16::MIN.
MA702GQ_angle(e, count, overflow_checks) ==
    LET after_count == get_lower_bits(count)
        forward == after_count > e.before_count
        cast == IF forward THEN as_i16(after_count - e.before_count)
                ELSE as_i16(e.before_count - after_count)
        overflowed == ~forward /\ cast = 0 - I16_MAX - 1
        relative_count == IF forward \/ overflowed THEN cast ELSE 0 - cast
    IN  IF overflowed /\ overflow_checks
        THEN [called |-> TRUE, before_count |-> e.before_count, panicked |-> TRUE,
              before |-> e.before_count, after |-> after_count,
              overflowed |-> TRUE, angle |-> NoTarget]
        ELSE [called |-> TRUE, before_count |-> after_count, panicked |-> FALSE,
              before |-> e.before_count, after |-> after_count,
              overflowed |-> overflowed,
              angle |-> <<relative_count, RESOLUTION_PER_ROTATION>>]

InitEncoder ==
    /\ CoreIdle /\ AgentIdle /\ SearchOperatorIdle /\ OperatorIdle /\ ReturnSetupIdle
    /\ slalom = NoCall /\ angle = NoCall
    /\ nodeId = NoCall /\ wallPos = NoCall /\ runAgent = NoCall
    /\ encoder = MA702GQ_new

\* encoder.angle()
EncoderAngle(count, overflow_checks) ==
    /\ ~encoder.panicked
    /\ encoder' = MA702GQ_angle(encoder, count, overflow_checks)
    /\ UNCHANGED <<coreVars, agentVars, searchOpVars, operatorVars, returnSetupVars,
                   slalom, angle, nodeId, wallPos, runAgent>>

NextEncoder == \E count \in Counts, overflow_checks \in BOOLEAN :
                   EncoderAngle(count, overflow_checks)

SpecEncoder == InitEncoder /\ [][NextEncoder]_vars

\* C22: for every pair of consecutive 16-bit readings (before, after), angle
\* returns without overflow or panic the difference (after - before) mod 2^16
\* read as a signed 16-bit value, over 1024 counts per revolution, and stores
\* after as the new before_count.
C22_WrapAroundSafe ==
    encoder.called
    => /\ ~encoder.panicked
       /\ ~encoder.overflowed
       /\ encoder.angle =
             <<as_i16((encoder.after - encoder.before) % (U16_MAX + 1)),
               RESOLUTION_PER_ROTATION>>
       /\ encoder.before_count = encoder.after

----------------------------------------------------------------------------
(* The run agent of src/agent.rs: set_commands in the foreground, where a  *)
(* fast run feeds the generator once, and track_next in the tick, which    *)
(* preempts the foreground between any two of its steps.  A panic ends the *)
(* program.                                                                *)

\* How many set_commands calls a run makes, and the longest trajectory the
\* generator returns.
MaxSetCommands == 2
MaxRunLen == 2

\* Agent::new: run_trajectory is RefCell::new(None), not borrowed
NewRunAgent ==
    [run_trajectory |-> [some |-> FALSE], borrowed |-> FALSE, pc |-> "idle",
     generated |-> <<>>, calls |-> 0, panicked |-> FALSE, tick |-> NoCall]

\* RunAgent::track_next: borrow_mut panics on a cell that is already
\* borrowed; otherwise the next target of the trajectory is tracked, or
\* TrackFinishError is returned when there is no trajectory or no target left
RunAgent_track_next(a) ==
    IF a.borrowed
    THEN [a EXCEPT !.panicked = TRUE,
                   !.tick = [called |-> TRUE, result |-> "panic", during |-> a.pc]]
    ELSE IF a.run_trajectory.some /\ a.run_trajectory.targets # <<>>
    THEN [a EXCEPT !.run_trajectory.targets = Tail(@),
                   !.tick = [called |-> TRUE, result |-> "Ok", during |-> a.pc,
                             target |-> Head(a.run_trajectory.targets)]]
    ELSE [a EXCEPT !.tick = [called |-> TRUE, result |-> "Err(TrackFinishError)",
                             during |-> a.pc]]

InitRunAgent ==
    /\ CoreIdle /\ AgentIdle /\ SearchOperatorIdle /\ OperatorIdle /\ ReturnSetupIdle
    /\ slalom = NoCall /\ angle = NoCall
    /\ encoder = NoCall /\ nodeId = NoCall /\ wallPos = NoCall
    /\ runAgent = NewRunAgent

\* The variables a run of the run agent leaves alone.
nonRunAgentVars ==
    <<coreVars, agentVars, searchOpVars, operatorVars, returnSetupVars,
      slalom, angle, encoder, nodeId, wallPos>>

\* set_commands: self.trajectory_generator.generate(commands), the argument
\* of replace
RunGenerate(len) ==
    /\ ~runAgent.panicked
    /\ runAgent.pc = "idle"
    /\ runAgent.calls < MaxSetCommands
    /\ runAgent' = [runAgent EXCEPT !.pc = "generated", !.calls = @ + 1,
                                    !.generated = [i \in 1..len |-> i]]
    /\ UNCHANGED nonRunAgentVars

\* set_commands: RefCell::replace takes the mutable borrow
RunBorrow ==
    /\ ~runAgent.panicked
    /\ runAgent.pc = "generated"
    /\ runAgent' = [runAgent EXCEPT !.pc = "borrowed", !.borrowed = TRUE]
    /\ UNCHANGED nonRunAgentVars

\* set_commands: RefCell::replace writes the new trajectory
RunReplace ==
    /\ ~runAgent.panicked
    /\ runAgent.pc = "borrowed"
    /\ runAgent' = [runAgent EXCEPT
          !.pc = "replaced",
          !.run_trajectory = [some |-> TRUE, targets |-> runAgent.generated]]
    /\ UNCHANGED nonRunAgentVars

\* set_commands: RefCell::replace drops the borrow and returns
RunRelease ==
    /\ ~runAgent.panicked
    /\ runAgent.pc = "replaced"
    /\ runAgent' = [runAgent EXCEPT !.pc = "idle", !.borrowed = FALSE]
    /\ UNCHANGED nonRunAgentVars

\* agent.track_next() in the tick
RunTick ==
    /\ ~runAgent.panicked
    /\ runAgent' = RunAgent_track_next(runAgent)
    /\ UNCHANGED nonRunAgentVars

NextRunAgent ==
    \/ \E len \in 0..MaxRunLen : RunGenerate(len)
    \/ RunBorrow
    \/ RunReplace
    \/ RunRelease
    \/ RunTick

SpecRunAgent == InitRunAgent /\ [][NextRunAgent]_vars

\* C29: in every interleaving of the tick with the foreground, track_next
\* never runs while set_commands holds the mutable borrow of run_trajectory:
\* the tick never panics on an already-borrowed cell and always either
\* tracks the next target or returns TrackFinishError.
C29_NoDoubleBorrow ==
    /\ ~runAgent.panicked
    /\ runAgent.tick.called
       => /\ runAgent.tick.during \notin {"borrowed", "replaced"}
          /\ runAgent.tick.result \in {"Ok", "Err(TrackFinishError)"}

----------------------------------------------------------------------------
(* The wall positions of src/maze/wall.rs.                                 *)

\* The largest |x| and |y| of the positions of the runs.
MaxPosition == 5

\* a / b on i16 for b > 0: the quotient is truncated towards zero
div_i16(a, b) == IF a >= 0 THEN a \div b ELSE 0 - ((0 - a) \div b)

\* Position::x_is_even, Position::y_is_even: v & 1 == 0 in two's complement
is_even(v) == v % 2 = 0

\* Position::location; unreachable!() panics
Position_location(position) ==
    IF is_even(position.x)
    THEN IF is_even(position.y) THEN "Cell" ELSE "HorizontalBound"
    ELSE IF is_even(position.y) THEN "VerticalBound" ELSE "panic"

\* WallPosition::from_position
WallPosition_from_position(position) ==
    LET x == div_i16(position.x, 2)
        y == div_i16(position.y, 2)
        location == Position_location(position)
    IN  IF x < 0 \/ y < 0 THEN None
        ELSE IF location = "panic" THEN [none |-> FALSE, panicked |-> TRUE]
        ELSE IF location = "Cell" THEN None
        ELSE [none |-> FALSE, panicked |-> FALSE, x |-> x, y |-> y,
              z |-> location = "VerticalBound"]

InitWallPosition ==
    /\ CoreIdle /\ AgentIdle /\ SearchOperatorIdle /\ OperatorIdle /\ ReturnSetupIdle
    /\ slalom = NoCall /\ angle = NoCall
    /\ encoder = NoCall /\ nodeId = NoCall /\ runAgent = NoCall
    /\ \E x \in (0 - MaxPosition)..MaxPosition, y \in (0 - MaxPosition)..MaxPosition :
          wallPos = [called |-> FALSE, position |-> [x |-> x, y |-> y]]

\* WallPosition::from_position(position)
FromPosition ==
    /\ ~wallPos.called
    /\ wallPos' = [called |-> TRUE, position |-> wallPos.position,
                   result |-> WallPosition_from_position(wallPos.position)]
    /\ UNCHANGED <<coreVars, agentVars, searchOpVars, operatorVars, returnSetupVars,
                   slalom, angle, encoder, nodeId, runAgent>>

NextWallPosition == FromPosition

SpecWallPosition == InitWallPosition /\ [][NextWallPosition]_vars

\* C30: from_position returns None for every position with a negative x or
\* a negative y and for every cell centre, returns the wall at (x/2, y/2),
\* z = false on a horizontal bound and z = true on a vertical bound, for
\* every other position with non-negative coordinates, and never panics.
C30_FromPosition ==
    wallPos.called
    => LET p == wallPos.position
           r == wallPos.result
       IN  IF p.x < 0 \/ p.y < 0 \/ (p.x % 2 = 0 /\ p.y % 2 = 0)
           THEN r = None
           ELSE /\ r # None
                /\ ~r.panicked
                /\ r.x = p.x \div 2
                /\ r.y = p.y \div 2
                /\ (p.x % 2 = 0 /\ p.y % 2 = 1) => r.z = FALSE
                /\ (p.x % 2 = 1 /\ p.y % 2 = 0) => r.z = TRUE

----------------------------------------------------------------------------
(* The threshold of the fail-safe.                                         *)

\* C23: the fail-safe triggers if and only if the distance between target
\* and state is strictly greater than fail_safe_distance; at an equal or
\* smaller distance the control law runs and the motors receive the computed
\* pair (V_v - V_w, V_v + V_w), which they keep until stop is called.
C23_FailSafeThreshold ==
    lastTrack.called
    => /\ tracker.panicked
          <=> distance2(lastTrack.state, lastTrack.target)
                 > fail_safe_distance * fail_safe_distance
       /\ distance2(lastTrack.state, lastTrack.target)
             <= fail_safe_distance * fail_safe_distance
          => /\ lastTrack.computed
             /\ \/ /\ tracker.left_motor = lastTrack.left
                   /\ tracker.right_motor = lastTrack.right
                \/ /\ tracker.left_motor = 0
                   /\ tracker.right_motor = 0

----------------------------------------------------------------------------
(* The node ids of src/maze/node.rs.                                       *)

\* The maze width N of NodeId<N>, the U16 of the tests.
N == 16

\* AbsoluteDirection
AbsoluteDirections ==
    {"North", "NorthEast", "East", "SouthEast", "South", "SouthWest", "West",
     "NorthWest"}

\* usize::trailing_zeros, for v > 0
RECURSIVE trailing_zeros(_)
trailing_zeros(v) == IF v % 2 = 1 THEN 0 ELSE 1 + trailing_zeros(v \div 2)

\* v << k on a u16 (k < 16): the bits shifted beyond bit 15 are lost
shl_u16(v, k) == (v * Pow2(k)) % (U16_MAX + 1)

\* NodeId::x_max, NodeId::y_max
x_max == N * 2 - 1
y_max == N * 2 - 1

\* NodeId::y_offset, NodeId::direction_offset
y_offset == trailing_zeros(N * 2)
direction_offset == 2 * trailing_zeros(N * 2)

\* The match arms of NodeId::new and NodeId::as_node, in their order: at a
\* cell centre, on a horizontal bound (x even, y odd) and on a vertical
\* bound (x odd, y even).
CellDirections == <<"North", "East", "South", "West">>
HorizontalBoundDirections ==
    <<"North", "NorthEast", "SouthEast", "South", "SouthWest", "NorthWest">>
VerticalBoundDirections ==
    <<"NorthEast", "East", "SouthEast", "SouthWest", "West", "NorthWest">>

\* The arms that apply at (x, y); none where both are odd.
direction_arms(x, y) ==
    IF BitAnd(x, 1) = 0
    THEN IF BitAnd(y, 1) = 0 THEN CellDirections ELSE HorizontalBoundDirections
    ELSE IF BitAnd(y, 1) = 0 THEN VerticalBoundDirections ELSE <<>>

\* A NodeId::new that packs the direction over the y field.
NodeId_new_DirectionOverY(x, y, direction) ==
    LET arms == direction_arms(x, y)
        hits == {k \in 1..Len(arms) : arms[k] = direction}
    IN  IF hits = {} THEN [panicked |-> TRUE]
        ELSE [panicked |-> FALSE,
              raw |-> BitOr(BitOr(x, shl_u16(y, y_offset)),
                            shl_u16(Only(hits) - 1, y_offset))]

\* NodeId::new, for x <= x_max and y <= y_max; unreachable!() panics
NodeId_new(x, y, direction) ==
    LET arms == direction_arms(x, y)
        hits == {k \in 1..Len(arms) : arms[k] = direction}
    IN  IF hits = {} THEN [panicked |-> TRUE]
        ELSE [panicked |-> FALSE,
              raw |-> BitOr(BitOr(x, shl_u16(y, y_offset)),
                            shl_u16(Only(hits) - 1, direction_offset))]

\* NodeId::x_raw, NodeId::y_raw
x_raw(raw) == BitAnd(raw, x_max)
y_raw(raw) == BitAnd(Shr(raw, y_offset), y_max)

\* NodeId::as_node; unreachable!() panics
as_node(raw) ==
    LET x == x_raw(raw)
        y == y_raw(raw)
        arms == direction_arms(x, y)
        code == Shr(raw, direction_offset)
    IN  IF code >= Len(arms) THEN [panicked |-> TRUE]
        ELSE [panicked |-> FALSE, x |-> x, y |-> y, direction |-> arms[code + 1]]

InitNodeId ==
    /\ CoreIdle /\ AgentIdle /\ SearchOperatorIdle /\ OperatorIdle /\ ReturnSetupIdle
    /\ slalom = NoCall /\ angle = NoCall
    /\ encoder = NoCall /\ wallPos = NoCall /\ runAgent = NoCall
    /\ \E x \in 0..x_max, y \in 0..y_max, direction \in AbsoluteDirections :
          nodeId = [called |-> FALSE, x |-> x, y |-> y, direction |-> direction]

\* NodeId::new(x, y, direction).as_node()
NodeRoundTrip ==
    /\ ~nodeId.called
    /\ \E id \in {NodeId_new(nodeId.x, nodeId.y, nodeId.direction)} :
          nodeId' = [called |-> TRUE, x |-> nodeId.x, y |-> nodeId.y,
                     direction |-> nodeId.direction,
                     id |-> id,
                     node |-> IF id.panicked THEN id ELSE as_node(id.raw)]
    /\ UNCHANGED <<coreVars, agentVars, searchOpVars, operatorVars, returnSetupVars,
                   slalom, angle, encoder, wallPos, runAgent>>

NextNodeId == NodeRoundTrip

SpecNodeId == InitNodeId /\ [][NextNodeId]_vars

\* (x, y, direction) is admissible: not both odd, and the direction is one
\* of the four cardinals at a cell centre, of N, NE, SE, S, SW, NW where x is
\* even and y odd, of NE, E, SE, SW, W, NW where x is odd and y even.
Admissible(x, y, direction) ==
    \/ /\ x % 2 = 0 /\ y % 2 = 0
       /\ direction \in {"North", "East", "South", "West"}
    \/ /\ x % 2 = 0 /\ y % 2 = 1
       /\ direction \in {"North", "NorthEast", "SouthEast", "South", "SouthWest",
                         "NorthWest"}
    \/ /\ x % 2 = 1 /\ y % 2 = 0
       /\ direction \in {"NorthEast", "East", "SouthEast", "SouthWest", "West",
                         "NorthWest"}

\* The raw id of every admissible triple.
RawIds ==
    [t \in {t \in (0..x_max) \X (0..y_max) \X AbsoluteDirections :
               Admissible(t[1], t[2], t[3])}
        |-> NodeId_new(t[1], t[2], t[3])]

\* Distinct admissible triples have distinct raw ids: there are as many raw
\* ids as triples.
RawIdsDistinct ==
    Cardinality({RawIds[t] : t \in DOMAIN RawIds}) = Cardinality(DOMAIN RawIds)

\* C24: for every admissible (x, y, direction) in the maze,
\* NodeId::new(x, y, direction).as_node() has the same x, y and direction,
\* and distinct admissible triples have distinct raw ids.
C24_RoundTrip ==
    (nodeId.called /\ Admissible(nodeId.x, nodeId.y, nodeId.direction))
    => /\ ~nodeId.id.panicked
       /\ ~nodeId.node.panicked
       /\ nodeId.node.x = nodeId.x
       /\ nodeId.node.y = nodeId.y
       /\ nodeId.node.direction = nodeId.direction
       /\ RawIds[<<nodeId.x, nodeId.y, nodeId.direction>>] = nodeId.id
       /\ RawIdsDistinct

\* C24 witness: a diagonal direction on the last vertical bound of the maze
\* went through the round trip.
C24_Witness ==
    /\ nodeId.called
    /\ nodeId.x = x_max
    /\ nodeId.y = y_max - 1
    /\ nodeId.direction = "NorthWest"
    /\ ~nodeId.node.panicked
    /\ nodeId.node.direction = "NorthWest"

----------------------------------------------------------------------------
(* The frame of Walls::update.                                             *)

\* C25: update(c, s) changes only the wall it names: afterwards
\* wall_state(c) = s, for each of the three states and whatever the state
\* was before, and wall_state(c') is what it was for every other valid
\* coordinate c'.
C25_UpdateFrame ==
    [][UpdateStep =>
         /\ wall_state(walls', lastUpdate'.coord) = lastUpdate'.state
         /\ \A c \in ValidCoords \ {lastUpdate'.coord} :
               wall_state(walls', c) = wall_state(walls, c)]_vars

\* C25 witness: an update wrote Checked{exists: false} over a wall that was
\* Checked{exists: true}, and the other wall of the same byte is still
\* Checked{exists: true}.
C25_Witness ==
    /\ lastUpdate.called
    /\ lastUpdate.prior = CheckedPresent
    /\ lastUpdate.state = CheckedAbsent
    /\ wall_state(walls, lastUpdate.coord) = CheckedAbsent
    /\ \E c \in ValidCoords :
          /\ c # lastUpdate.coord
          /\ as_index(c) \div 4 = as_index(lastUpdate.coord) \div 4
          /\ wall_state(walls, c) = CheckedPresent

----------------------------------------------------------------------------
(* Panics of the search.                                                   *)

\* C26: search never panics: for every in-grid start, goal and current,
\* start = goal included, and every store reached from Walls::new by update
\* calls, no assert, unreachable!(), array index, push or unwrap fails and
\* search returns a value.
C26_NeverPanics ==
    found.called => found.result \in {OkNone, OkSome, Unreachable}

----------------------------------------------------------------------------
(* The operator's mode under the switch.                                   *)

\* C27: a user cancel is never lost: once a tick has stored Select, the mode
\* stays Select until mode_select stores the mode it selected; the store of
\* FastRun at the end of a search does not overwrite a Select.
C27_CancelNotLost ==
    [][(operator.mode = "Select" /\ operator'.mode # "Select")
         => operator.pc = "select_count"]_vars

\* C28: when mode_select returns after the release of the switch, the mode
\* is still the one it stored on the press: no tick that fired while the
\* switch was held has put the operator back into Select.
C28_SelectionTakesEffect ==
    [][(operator.pc = "select_release" /\ operator'.pc = "loop")
         => operator'.mode = operator.chosen]_vars

============================================================================
